---- MODULE Spec2Model ----
(***************************************************************************)
(* A model of the 6502 emulator core in src/src/cpu.rs: the register file  *)
(* CPU, the status word Status, the addressing unit and the fetch/dispatch *)
(* loop CPU::execute, driven by a host that loads a memory image, calls    *)
(* reset and then execute with a cycle budget (as tests/lda.rs does).      *)
(*                                                                         *)
(* Arithmetic is modelled as the test build computes it (overflow checks   *)
(* on, the profile under which the #[should_panic] tests of tests/lda.rs   *)
(* are meaningful): `+`, `-`, `+=`, `-=` on u8/u16/u32 panic when the      *)
(* result leaves the type, wrapping_add/overflowing_add wrap, and indexing *)
(* the 65536-byte memory out of range panics.  A panic is the fatal end of *)
(* execute; the kind of panic is kept in `fault`.                          *)
(*                                                                         *)
(* src/src/consts.rs defines 133 opcode constants (LDA_IM .. RTS).  The    *)
(* names BCC, BCS, ..., RTI used by the later match arms of execute are    *)
(* defined nowhere, so `BCC => { .. }` is an identifier pattern: it binds  *)
(* the fetched byte and matches every byte the 133 constant arms did not.  *)
(* The arms after it (BCS .. RTI and `_ => panic!`) can never be entered.  *)
(***************************************************************************)
EXTENDS Integers, Sequences, FiniteSets, TLC

(* ---- src/src/consts.rs: the opcode constants ---- *)
LDA_IM == 169
LDA_ZP == 165
LDA_ZPX == 181
LDA_ABS == 173
LDA_ABSX == 189
LDA_ABSY == 185
LDA_INDX == 161
LDA_INDY == 177
LDX_IM == 162
LDX_ZP == 166
LDX_ZPY == 182
LDX_ABS == 174
LDX_ABSY == 190
LDY_IM == 160
LDY_ZP == 164
LDY_ZPX == 180
LDY_ABS == 172
LDY_ABSX == 188
STA_ZP == 133
STA_ZPX == 149
STA_ABS == 141
STA_ABSX == 157
STA_ABSY == 153
STA_INDX == 129
STA_INDY == 145
STX_ZP == 134
STX_ZPY == 150
STX_ABS == 142
STY_ZP == 132
STY_ZPX == 148
STY_ABS == 140
TAX == 170
TAY == 168
TXA == 138
TYA == 152
TSX == 186
TXS == 154
PHA == 72
PHP == 8
PLA == 104
PLP == 40
AND_IM == 41
AND_ZP == 37
AND_ZPX == 53
AND_ABS == 45
AND_ABSX == 61
AND_ABSY == 57
AND_INDX == 33
AND_INDY == 49
EOR_IM == 73
EOR_ZP == 69
EOR_ZPX == 85
EOR_ABS == 77
EOR_ABSX == 93
EOR_ABSY == 89
EOR_INDX == 65
EOR_INDY == 81
ORA_IM == 9
ORA_ZP == 5
ORA_ZPX == 21
ORA_ABS == 13
ORA_ABSX == 29
ORA_ABSY == 25
ORA_INDX == 1
ORA_INDY == 17
BIT_ZP == 36
BIT_ABS == 44
ADC_IM == 105
ADC_ZP == 101
ADC_ZPX == 117
ADC_ABS == 109
ADC_ABSX == 125
ADC_ABSY == 121
ADC_INDX == 97
ADC_INDY == 113
SBC_IM == 233
SBC_ZP == 229
SBC_ZPX == 245
SBC_ABS == 237
SBC_ABSX == 253
SBC_ABSY == 249
SBC_INDX == 225
SBC_INDY == 241
CMP_IM == 201
CMP_ZP == 197
CMP_ZPX == 213
CMP_ABS == 205
CMP_ABSX == 221
CMP_ABSY == 217
CMP_INDX == 193
CMP_INDY == 209
CPX_IM == 224
CPX_ZP == 228
CPX_ABS == 236
CPY_IM == 192
CPY_ZP == 196
CPY_ABS == 204
INC_ZP == 230
INC_ZPX == 246
INC_ABS == 238
INC_ABSX == 254
INX == 232
INY == 200
DEC_ZP == 198
DEC_ZPX == 214
DEC_ABS == 206
DEC_ABSX == 222
DEX == 202
DEY == 136
ASL_A == 10
ASL_ZP == 6
ASL_ZPX == 22
ASL_ABS == 14
ASL_ABSX == 30
LSR_A == 74
LSR_ZP == 70
LSR_ZPX == 86
LSR_ABS == 78
LSR_ABSX == 94
ROL_A == 42
ROL_ZP == 38
ROL_ZPX == 54
ROL_ABS == 46
ROL_ABSX == 62
ROR_A == 106
ROR_ZP == 102
ROR_ZPX == 118
ROR_ABS == 110
ROR_ABSX == 126
JMP_ABS == 76
JMP_IND == 108
JSR == 32
RTS == 96

(* ---- widths ---- *)
\* [Byte; 65536] of Memory (src/src/memory.rs)
MemSize == 65536
\* Byte = u8, Word = u16
ByteMod == 256
WordMax == 65535

(* ---- bit operations on bytes ---- *)
bit(v, i) == (v \div (2^i)) % 2

and8(u, v) ==
    bit(u,0)*bit(v,0) + 2*bit(u,1)*bit(v,1) + 4*bit(u,2)*bit(v,2)
  + 8*bit(u,3)*bit(v,3) + 16*bit(u,4)*bit(v,4) + 32*bit(u,5)*bit(v,5)
  + 64*bit(u,6)*bit(v,6) + 128*bit(u,7)*bit(v,7)

or8(u, v) == u + v - and8(u, v)

xor8(u, v) == u + v - 2 * and8(u, v)

not8(v) == 255 - v

\* u8 << 1 and u8 >> 1 (shifts drop the bits that leave the byte)
shl1(v) == (2 * v) % ByteMod

shr1(v) == v \div 2

\* & 0xFF00 on a u16
page(w) == w - (w % 256)

(* ---- Status: bitflags over u8, bit 5 is no flag ---- *)
Status_C == 1
Status_Z == 2
Status_I == 4
Status_D == 8
Status_B == 16
Status_V == 64
Status_N == 128

\* Status::from_bits: None (here -1) when a bit that is no flag is set
from_bits(value) == IF bit(value, 5) = 1 THEN -1 ELSE value

\* impl From<u8> for Status
Status_from(value) ==
    IF from_bits(value) # -1 THEN from_bits(value) ELSE from_bits(and8(value, 223))

\* bitflags' Status::set(other, value): insert when value, else remove
Status_set(bits, other, state) ==
    IF state THEN or8(bits, other) ELSE and8(bits, not8(other))

carry_flag(bits) == and8(bits, 1) = 1
zero_flag(bits) == and8(bits, 2) = 2
interrupt_flag(bits) == and8(bits, 4) = 4
decimal_flag(bits) == and8(bits, 8) = 8
break_flag(bits) == and8(bits, 16) = 16
overflow_flag(bits) == and8(bits, 64) = 64
negative_flag(bits) == and8(bits, 128) = 128

(* ---- the memory: 65536 bytes, kept as the map of its non-zero cells ---- *)
Read(m, addr) == IF addr \in DOMAIN m THEN m[addr] ELSE 0

Write(m, addr, v) ==
    [k \in (IF v = 0 THEN DOMAIN m \ {addr} ELSE DOMAIN m \cup {addr}) |->
        IF k = addr THEN v ELSE m[k]]

(***************************************************************************)
(* The body of execute is straight-line code over (self, cycles, memory).  *)
(* It is modelled by operators over a record s of those values:            *)
(*   pc sp a x y p memory cycles   the values themselves                   *)
(*   fault   "none", or the panic that ended the run; once set, every      *)
(*           later operator leaves s alone (the code after a panic never   *)
(*           runs)                                                         *)
(*   ret     the value the last helper function returned                   *)
(*   acc     the memory cells indexed so far, in order: <<"r"|"w", addr>>  *)
(***************************************************************************)
Ok(s) == s.fault = "none"

Panic(s, kind) == IF Ok(s) THEN [s EXCEPT !.fault = kind] ELSE s

\* `*cycles -= 1` / `cycles -= 1` on the u32 budget
debit(s) ==
    IF ~Ok(s) THEN s
    ELSE IF s.cycles = 0 THEN Panic(s, "cycles")
    ELSE [s EXCEPT !.cycles = @ - 1]

\* `memory[addr]` as a value: the byte is left in ret
load(s, addr) ==
    IF ~Ok(s) THEN s
    ELSE IF addr >= MemSize THEN Panic(s, "bounds")
    ELSE [s EXCEPT !.ret = Read(s.memory, addr), !.acc = Append(@, <<"r", addr>>)]

\* `memory[addr] = v`
store(s, addr, v) ==
    IF ~Ok(s) THEN s
    ELSE IF addr >= MemSize THEN Panic(s, "bounds")
    ELSE [s EXCEPT !.memory = Write(@, addr, v), !.acc = Append(@, <<"w", addr>>)]

\* `self.pc += 1`
inc_pc(s) ==
    IF ~Ok(s) THEN s
    ELSE IF s.pc = WordMax THEN Panic(s, "overflow")
    ELSE [s EXCEPT !.pc = @ + 1]

\* `self.sp += 1`
inc_sp(s) ==
    IF ~Ok(s) THEN s
    ELSE IF s.sp = 255 THEN Panic(s, "overflow")
    ELSE [s EXCEPT !.sp = @ + 1]

\* `self.sp -= 1`
dec_sp(s) ==
    IF ~Ok(s) THEN s
    ELSE IF s.sp = 0 THEN Panic(s, "overflow")
    ELSE [s EXCEPT !.sp = @ - 1]

\* assignments to the registers and to P (skipped after a panic)
set_pc(s, v) == IF Ok(s) THEN [s EXCEPT !.pc = v] ELSE s
set_sp(s, v) == IF Ok(s) THEN [s EXCEPT !.sp = v] ELSE s
set_a(s, v) == IF Ok(s) THEN [s EXCEPT !.a = v] ELSE s
set_x(s, v) == IF Ok(s) THEN [s EXCEPT !.x = v] ELSE s
set_y(s, v) == IF Ok(s) THEN [s EXCEPT !.y = v] ELSE s
set_p(s, v) == IF Ok(s) THEN [s EXCEPT !.p = v] ELSE s
set_ret(s, v) == IF Ok(s) THEN [s EXCEPT !.ret = v] ELSE s

set_carry(s, state) == set_p(s, Status_set(s.p, Status_from(1), state))
set_zero(s, state) == set_p(s, Status_set(s.p, Status_from(2), state))
set_interrupt(s, state) == set_p(s, Status_set(s.p, Status_from(4), state))
set_decimal(s, state) == set_p(s, Status_set(s.p, Status_from(8), state))
set_break(s, state) == set_p(s, Status_set(s.p, Status_from(16), state))
set_overflow(s, state) == set_p(s, Status_set(s.p, Status_from(64), state))
set_negative(s, state) == set_p(s, Status_set(s.p, Status_from(128), state))

\* sequencing: the value of one statement, named in the statements after it
Then(v, Rest(_)) == Rest(v)

(* ---- fetches and reads ---- *)
fetch_byte(s) == debit(inc_pc(load(s, s.pc)))

fetch_word(s) ==
    Then(debit(inc_pc(load(s, s.pc))), LAMBDA s1 :
    Then(debit(inc_pc(load(s1, s1.pc))), LAMBDA s2 :
    set_ret(s2, 256 * s2.ret + s1.ret)))

read_memory(s, effective_address) == debit(load(s, effective_address))

read_word_memory(s, effective_address) ==
    Then(read_memory(s, effective_address), LAMBDA s1 :
    Then(read_memory(s1, effective_address + 1), LAMBDA s2 :
    set_ret(s2, s1.ret + 256 * s2.ret)))

(* ---- the addressing unit: the effective address is left in ret ---- *)
zero_page_addressing(s) == fetch_byte(s)

\* `(self.x as u16 + address as u16) % 256` (zero page) and
\* `address.wrapping_add(self.x)` ((indirect,X)), then `*cycles -= 1`
wrap_index(s1, index) == debit(set_ret(s1, (index + s1.ret) % 256))

zero_page_x_addressing(s) ==
    Then(fetch_byte(s), LAMBDA s1 : wrap_index(s1, s1.x))

zero_page_y_addressing(s) ==
    Then(fetch_byte(s), LAMBDA s1 : wrap_index(s1, s1.y))

absolute_addressing(s) == fetch_word(s)

\* `self.x as u16 + address`, as ABSX and the read-modify-write ABSX arms compute it
add_index(s, index, address) ==
    IF index + address > WordMax THEN Panic(s, "overflow")
    ELSE set_ret(s, index + address)

\* the page-cross debit shared by absolute,X / absolute,Y / (indirect),Y
cross_debit(s, address) ==
    IF Ok(s) /\ page(address) # page(s.ret) THEN debit(s) ELSE s

absolute_x_addressing(s) ==
    Then(fetch_word(s), LAMBDA s1 :
    cross_debit(add_index(s1, s1.x, s1.ret), s1.ret))

absolute_y_addressing(s) ==
    Then(fetch_word(s), LAMBDA s1 :
    cross_debit(add_index(s1, s1.y, s1.ret), s1.ret))

indirect_addressing(s) ==
    Then(fetch_word(s), LAMBDA s1 : read_word_memory(s1, s1.ret))

indirect_x_addressing(s) ==
    Then(fetch_byte(s), LAMBDA s1 :
    Then(wrap_index(s1, s1.x), LAMBDA s2 :
    read_word_memory(s2, s2.ret)))

indirect_y_addressing(s) ==
    Then(fetch_byte(s), LAMBDA s1 :
    Then(read_word_memory(s1, s1.ret), LAMBDA s2 :
    cross_debit(add_index(s2, s2.y, s2.ret), s2.ret)))

(* ---- flag helpers of CPU ---- *)
\* zero assigned, negative only ever set
set_zn_negative_sticky(s, v) ==
    IF and8(v, 128) = 128 THEN set_negative(set_zero(s, v = 0), TRUE)
    ELSE set_zero(s, v = 0)

set_zn(s, v) == set_negative(set_zero(s, v = 0), and8(v, 128) = 128)

set_lda_flags(s) == set_zn(s, s.a)

set_ldx_flags(s) == set_zn(s, s.x)

set_ldy_flags(s) == set_zn(s, s.y)
(***************************************************************************)
(* The match arms of execute.  Each operator takes s, the state right      *)
(* after the opcode fetch, and the fetched byte, and yields the state at   *)
(* the end of the arm.                                                     *)
(***************************************************************************)
arm_LDA(s, instruction) ==
    IF instruction = LDA_IM
    THEN Then(fetch_byte(s), LAMBDA s1 : set_lda_flags(set_a(s1, s1.ret)))
    ELSE Then(CASE instruction = LDA_ZP -> zero_page_addressing(s)
                [] instruction = LDA_ZPX -> zero_page_x_addressing(s)
                [] instruction = LDA_ABS -> absolute_addressing(s)
                [] instruction = LDA_ABSX -> absolute_x_addressing(s)
                [] instruction = LDA_ABSY -> absolute_y_addressing(s)
                [] instruction = LDA_INDX -> indirect_x_addressing(s)
                [] instruction = LDA_INDY -> indirect_y_addressing(s), LAMBDA s1 :
         Then(read_memory(s1, s1.ret), LAMBDA s2 :
         set_lda_flags(set_a(s2, s2.ret))))

arm_LDX(s, instruction) ==
    IF instruction = LDX_IM
    THEN Then(fetch_byte(s), LAMBDA s1 : set_ldx_flags(set_x(s1, s1.ret)))
    ELSE Then(CASE instruction = LDX_ZP -> zero_page_addressing(s)
                [] instruction = LDX_ZPY -> zero_page_y_addressing(s)
                [] instruction = LDX_ABS -> absolute_addressing(s)
                [] instruction = LDX_ABSY -> absolute_y_addressing(s), LAMBDA s1 :
         Then(read_memory(s1, s1.ret), LAMBDA s2 :
         set_ldx_flags(set_x(s2, s2.ret))))

arm_LDY(s, instruction) ==
    IF instruction = LDY_IM
    THEN Then(fetch_byte(s), LAMBDA s1 : set_ldy_flags(set_y(s1, s1.ret)))
    ELSE Then(CASE instruction = LDY_ZP -> zero_page_addressing(s)
                [] instruction = LDY_ZPX -> zero_page_x_addressing(s)
                [] instruction = LDY_ABS -> absolute_addressing(s)
                [] instruction = LDY_ABSX -> absolute_x_addressing(s), LAMBDA s1 :
         Then(read_memory(s1, s1.ret), LAMBDA s2 :
         set_ldy_flags(set_y(s2, s2.ret))))

\* the store arms write without a cycle debit
arm_STA(s, instruction) ==
    Then(CASE instruction = STA_ZP -> zero_page_addressing(s)
           [] instruction = STA_ZPX -> zero_page_x_addressing(s)
           [] instruction = STA_ABS -> absolute_addressing(s)
           [] instruction = STA_ABSX -> absolute_x_addressing(s)
           [] instruction = STA_ABSY -> absolute_y_addressing(s)
           [] instruction = STA_INDX -> indirect_x_addressing(s)
           [] instruction = STA_INDY -> indirect_y_addressing(s), LAMBDA s1 :
    store(s1, s1.ret, s1.a))

arm_STX(s, instruction) ==
    Then(CASE instruction = STX_ZP -> zero_page_addressing(s)
           [] instruction = STX_ZPY -> zero_page_y_addressing(s)
           [] instruction = STX_ABS -> absolute_addressing(s), LAMBDA s1 :
    store(s1, s1.ret, s1.x))

\* the STY arm stores self.x
arm_STY(s, instruction) ==
    Then(CASE instruction = STY_ZP -> zero_page_addressing(s)
           [] instruction = STY_ZPX -> zero_page_x_addressing(s)
           [] instruction = STY_ABS -> absolute_addressing(s), LAMBDA s1 :
    store(s1, s1.ret, s1.x))

arm_TAX(s) == Then(debit(set_x(s, s.a)), LAMBDA s1 : set_zn(s1, s1.x))

arm_TAY(s) == Then(debit(set_y(s, s.a)), LAMBDA s1 : set_zn(s1, s1.y))

arm_TXA(s) == Then(debit(set_a(s, s.x)), LAMBDA s1 : set_zn(s1, s1.a))

arm_TYA(s) == Then(debit(set_a(s, s.y)), LAMBDA s1 : set_zn(s1, s1.a))

arm_TSX(s) == Then(debit(set_x(s, s.sp)), LAMBDA s1 : set_zn(s1, s1.x))

arm_TXS(s) == debit(set_sp(s, s.x))

\* the stack arms index memory with self.sp itself
arm_PHA(s) ==
    Then(debit(s), LAMBDA s1 : debit(dec_sp(store(s1, s1.sp, s1.a))))

arm_PHP(s) ==
    Then(debit(s), LAMBDA s1 : debit(dec_sp(store(s1, s1.sp, s1.p))))

arm_PLA(s) ==
    Then(inc_sp(debit(debit(s))), LAMBDA s1 :
    Then(load(s1, s1.sp), LAMBDA s2 :
    Then(debit(set_a(s2, s2.ret)), LAMBDA s3 :
    set_zn(s3, s3.a))))

\* the pulled byte kept whole, as Status::from_bits_retain would
unwrap_p_retaining(s2) == set_p(s2, s2.ret)

\* Status::from_bits(..).unwrap()
unwrap_p(s2) ==
    IF from_bits(s2.ret) = -1 THEN Panic(s2, "unwrap")
    ELSE set_p(s2, from_bits(s2.ret))

arm_PLP(s) ==
    Then(inc_sp(debit(debit(s))), LAMBDA s1 :
    Then(load(s1, s1.sp), LAMBDA s2 :
    debit(unwrap_p(s2))))

\* the operand byte of AND, EOR, ORA: `memory[ea]` then `cycles -= 1`
logic_operand(s, instruction, im, zp, zpx, abs, absx, absy, indx, indy) ==
    IF instruction = im THEN fetch_byte(s)
    ELSE Then(CASE instruction = zp -> zero_page_addressing(s)
                [] instruction = zpx -> zero_page_x_addressing(s)
                [] instruction = abs -> absolute_addressing(s)
                [] instruction = absx -> absolute_x_addressing(s)
                [] instruction = absy -> absolute_y_addressing(s)
                [] instruction = indx -> indirect_x_addressing(s)
                [] instruction = indy -> indirect_y_addressing(s), LAMBDA s1 :
         debit(load(s1, s1.ret)))

arm_AND(s, instruction) ==
    Then(logic_operand(s, instruction, AND_IM, AND_ZP, AND_ZPX, AND_ABS,
                       AND_ABSX, AND_ABSY, AND_INDX, AND_INDY), LAMBDA s1 :
    Then(set_a(s1, and8(s1.a, s1.ret)), LAMBDA s2 :
    set_zn(s2, s2.a)))

arm_EOR(s, instruction) ==
    Then(logic_operand(s, instruction, EOR_IM, EOR_ZP, EOR_ZPX, EOR_ABS,
                       EOR_ABSX, EOR_ABSY, EOR_INDX, EOR_INDY), LAMBDA s1 :
    Then(set_a(s1, xor8(s1.a, s1.ret)), LAMBDA s2 :
    set_zn(s2, s2.a)))

arm_ORA(s, instruction) ==
    Then(logic_operand(s, instruction, ORA_IM, ORA_ZP, ORA_ZPX, ORA_ABS,
                       ORA_ABSX, ORA_ABSY, ORA_INDX, ORA_INDY), LAMBDA s1 :
    Then(set_a(s1, or8(s1.a, s1.ret)), LAMBDA s2 :
    set_zn(s2, s2.a)))

\* `self.set_zero(bit_test == 0)`, then
\* `self.p &= Status::from_bits(bit_test & 0b11000000).unwrap()`
bit_flags(s3, bit_test) ==
    Then(set_zero(s3, bit_test = 0), LAMBDA s4 :
    set_p(s4, and8(s4.p, from_bits(and8(bit_test, 192)))))

\* BIT_ZP debits the operand read, BIT_ABS does not
arm_BIT(s, instruction) ==
    Then(IF instruction = BIT_ZP THEN zero_page_addressing(s)
         ELSE absolute_addressing(s), LAMBDA s1 :
    Then(load(s1, s1.ret), LAMBDA s2 :
    bit_flags(IF instruction = BIT_ZP THEN debit(s2) ELSE s2, and8(s2.a, s2.ret))))
\* CPU::set_adc_sbc_flags(overflow, initial_value); the negative test compares
\* `self.a & 0b10000000` with 0b1000000
set_adc_sbc_flags(s, overflow, initial_value) ==
    Then(set_carry(s, overflow), LAMBDA s1 :
    Then(set_overflow(s1, and8(initial_value, 128) # and8(s1.a, 128)), LAMBDA s2 :
    Then(set_zero(s2, s2.a = 0), LAMBDA s3 :
    set_negative(s3, and8(s3.a, 128) = 64))))

\* `let (a, a_overflow) = self.a.overflowing_add(byte)`
overflowing_add(u, v) == [value |-> (u + v) % ByteMod, overflow |-> u + v >= ByteMod]

\* add_with_carry with the carry-out of the second addition dropped
add_with_carry_first_overflow_only(s, byte) ==
    Then(overflowing_add(s.a, byte), LAMBDA first :
    Then(IF carry_flag(s.p) THEN overflowing_add(first.value, 1)
         ELSE [value |-> first.value, overflow |-> FALSE], LAMBDA second :
    set_adc_sbc_flags(set_a(s, second.value), first.overflow, byte)))

\* the body shared by the sixteen ADC and SBC arms once `byte` is known:
\* two overflowing_add, `self.a = a`, set_adc_sbc_flags(a_overflow, byte)
add_with_carry(s, byte) ==
    Then(overflowing_add(s.a, byte), LAMBDA first :
    Then(IF carry_flag(s.p) THEN overflowing_add(first.value, 1)
         ELSE [value |-> first.value, overflow |-> FALSE], LAMBDA second :
    set_adc_sbc_flags(set_a(s, second.value), first.overflow \/ second.overflow, byte)))

arm_ADC(s, instruction) ==
    Then(logic_operand(s, instruction, ADC_IM, ADC_ZP, ADC_ZPX, ADC_ABS,
                       ADC_ABSX, ADC_ABSY, ADC_INDX, ADC_INDY), LAMBDA s1 :
    add_with_carry(s1, s1.ret))

\* an SBC arm that adds the byte as it was read
arm_SBC_no_negation(s, instruction) ==
    Then(logic_operand(s, instruction, SBC_IM, SBC_ZP, SBC_ZPX, SBC_ABS,
                       SBC_ABSX, SBC_ABSY, SBC_INDX, SBC_INDY), LAMBDA s1 :
    add_with_carry(s1, s1.ret))

\* `let byte = !...`
arm_SBC(s, instruction) ==
    Then(logic_operand(s, instruction, SBC_IM, SBC_ZP, SBC_ZPX, SBC_ABS,
                       SBC_ABSX, SBC_ABSY, SBC_INDX, SBC_INDY), LAMBDA s1 :
    add_with_carry(s1, not8(s1.ret)))

\* CMP and CPX: carry assigned; zero and negative only ever set to true
compare_set(s, reg, byte) ==
    Then(set_carry(s, reg >= byte), LAMBDA s1 :
    Then(IF reg = byte THEN set_zero(s1, TRUE) ELSE s1, LAMBDA s2 :
    IF reg >= byte /\ and8(reg - byte, 128) = 128
    THEN set_negative(s2, TRUE) ELSE s2))

\* CPY: carry, zero and negative all assigned
compare_assign(s, reg, byte) ==
    Then(set_carry(s, reg >= byte), LAMBDA s1 :
    Then(set_zero(s1, reg = byte), LAMBDA s2 :
    set_negative(s2, reg >= byte /\ and8(reg - byte, 128) = 128)))

\* the operand byte of a compare arm
compare_operand(s, immediate, address) ==
    IF immediate THEN fetch_byte(s)
    ELSE Then(address, LAMBDA t : read_memory(t, t.ret))

\* the CMP_ZPX arm calls zero_page_addressing
arm_CMP(s, instruction) ==
    Then(compare_operand(s, instruction = CMP_IM,
            CASE instruction = CMP_ZP -> zero_page_addressing(s)
              [] instruction = CMP_ZPX -> zero_page_addressing(s)
              [] instruction = CMP_ABS -> absolute_addressing(s)
              [] instruction = CMP_ABSX -> absolute_x_addressing(s)
              [] instruction = CMP_ABSY -> absolute_y_addressing(s)
              [] instruction = CMP_INDX -> indirect_x_addressing(s)
              [] instruction = CMP_INDY -> indirect_y_addressing(s)
              [] OTHER -> s), LAMBDA s1 :
    compare_set(s1, s1.a, s1.ret))

arm_CPX(s, instruction) ==
    Then(compare_operand(s, instruction = CPX_IM,
            IF instruction = CPX_ZP THEN zero_page_addressing(s)
            ELSE absolute_addressing(s)), LAMBDA s1 :
    compare_set(s1, s1.x, s1.ret))

arm_CPY(s, instruction) ==
    Then(compare_operand(s, instruction = CPY_IM,
            IF instruction = CPY_ZP THEN zero_page_addressing(s)
            ELSE absolute_addressing(s)), LAMBDA s1 :
    compare_assign(s1, s1.y, s1.ret))

\* `data += 1` / `self.x += 1` on a u8
add_one(s, v) == IF v = 255 THEN Panic(s, "overflow") ELSE set_ret(s, v + 1)

\* `data -= 1` / `self.x -= 1` on a u8
sub_one(s, v) == IF v = 0 THEN Panic(s, "overflow") ELSE set_ret(s, v - 1)

\* an INC_ABSX / DEC_ABSX address billed like an absolute,X read: the extra
\* cycle only when the index crosses a page
rmw_absx_address_cross_billed(s) == absolute_x_addressing(s)

\* INC_ABSX, DEC_ABSX: fetch_word, `self.x as u16 + address`, one discarded cycle
rmw_absx_address(s) ==
    Then(fetch_word(s), LAMBDA s1 : debit(add_index(s1, s1.x, s1.ret)))

\* write the modified data back, one debit, then zero and negative
write_back(s3, effective_address) ==
    set_zn(debit(store(s3, effective_address, s3.ret)), s3.ret)

\* fetch data, modify, write back: one debit each, then zero and negative
arm_INC(s, instruction) ==
    Then(CASE instruction = INC_ZP -> zero_page_addressing(s)
           [] instruction = INC_ZPX -> zero_page_x_addressing(s)
           [] instruction = INC_ABS -> absolute_addressing(s)
           [] instruction = INC_ABSX -> rmw_absx_address(s), LAMBDA s1 :
    Then(debit(load(s1, s1.ret)), LAMBDA s2 :
    write_back(debit(add_one(s2, s2.ret)), s1.ret)))

arm_DEC(s, instruction) ==
    Then(CASE instruction = DEC_ZP -> zero_page_addressing(s)
           [] instruction = DEC_ZPX -> zero_page_x_addressing(s)
           [] instruction = DEC_ABS -> absolute_addressing(s)
           [] instruction = DEC_ABSX -> rmw_absx_address(s), LAMBDA s1 :
    Then(debit(load(s1, s1.ret)), LAMBDA s2 :
    write_back(debit(sub_one(s2, s2.ret)), s1.ret)))

arm_INX(s) ==
    Then(add_one(s, s.x), LAMBDA s1 :
    Then(debit(set_x(s1, s1.ret)), LAMBDA s2 :
    set_zn(s2, s2.x)))

arm_INY(s) ==
    Then(add_one(s, s.y), LAMBDA s1 :
    Then(debit(set_y(s1, s1.ret)), LAMBDA s2 :
    set_zn(s2, s2.y)))

\* the DEX and DEY arms have no cycle debit
arm_DEX(s) ==
    Then(sub_one(s, s.x), LAMBDA s1 :
    Then(set_x(s1, s1.ret), LAMBDA s2 :
    set_zn(s2, s2.x)))

arm_DEY(s) ==
    Then(sub_one(s, s.y), LAMBDA s1 :
    Then(set_y(s1, s1.ret), LAMBDA s2 :
    set_zn(s2, s2.y)))

\* the flag tail of every shift and rotate arm: carry is set when the tested
\* bit of the old value is 1 and otherwise negative is cleared; zero is
\* assigned; negative is set when bit 7 of the new value is 1
shift_flags(s, tested, new) ==
    Then(IF tested = 1 THEN set_carry(s, TRUE) ELSE set_negative(s, FALSE), LAMBDA s1 :
    Then(set_zero(s1, new = 0), LAMBDA s2 :
    IF and8(new, 128) = 128 THEN set_negative(s2, TRUE) ELSE s2))

\* the new byte of each shift and rotate from the old byte and P
asl_byte(v, bits) == shl1(v)

lsr_byte(v, bits) == shr1(v)

\* `<< 1`, then `|= self.p.bits() & 0b00000001`
rol_byte(v, bits) == or8(shl1(v), and8(bits, 1))

\* a rotate right that shifts in no carry
ror_byte_no_carry_in(v, bits) == shr1(v)

\* `>> 1`, then `|= 0b10000000` when carry is set, else `&= 0b01111111`
ror_byte(v, bits) ==
    IF carry_flag(bits) THEN or8(shr1(v), 128) ELSE and8(shr1(v), 127)

\* the accumulator arms: `tested` is the bit of old_a the arm tests for carry
shift_a(s, New(_, _), tested) ==
    Then(debit(set_a(s, New(s.a, s.p))), LAMBDA s1 :
    shift_flags(s1, bit(s.a, tested), s1.a))

\* ASL_ABSX .. ROR_ABSX: fetch_word, `self.x as u16 + address`
shift_absx_address(s) ==
    Then(fetch_word(s), LAMBDA t : add_index(t, t.x, t.ret))

\* compute, write back, one debit each, then the flags
shift_write(s3, effective_address, old_byte, new_byte) ==
    shift_flags(debit(store(debit(s3), effective_address, new_byte)),
                bit(old_byte, 7), new_byte)

\* the memory arms: read the old byte (the ABSX arms add the index without a
\* page test and spend one discarded cycle after the read), compute, write
\* back, one debit each; every memory arm tests bit 7 of the old byte
shift_memory(s, instruction, zp, zpx, abs, absx, New(_, _)) ==
    Then(CASE instruction = zp -> zero_page_addressing(s)
           [] instruction = zpx -> zero_page_x_addressing(s)
           [] instruction = abs -> absolute_addressing(s)
           [] instruction = absx -> shift_absx_address(s), LAMBDA s1 :
    Then(read_memory(s1, s1.ret), LAMBDA s2 :
    Then(IF instruction = absx THEN debit(s2) ELSE s2, LAMBDA s3 :
    shift_write(s3, s1.ret, s2.ret, New(s2.ret, s3.p)))))

arm_ASL(s, instruction) ==
    IF instruction = ASL_A THEN shift_a(s, asl_byte, 7)
    ELSE shift_memory(s, instruction, ASL_ZP, ASL_ZPX, ASL_ABS, ASL_ABSX, asl_byte)

\* LSR_A tests bit 0 of the old value
arm_LSR(s, instruction) ==
    IF instruction = LSR_A THEN shift_a(s, lsr_byte, 0)
    ELSE shift_memory(s, instruction, LSR_ZP, LSR_ZPX, LSR_ABS, LSR_ABSX, lsr_byte)

arm_ROL(s, instruction) ==
    IF instruction = ROL_A THEN shift_a(s, rol_byte, 7)
    ELSE shift_memory(s, instruction, ROL_ZP, ROL_ZPX, ROL_ABS, ROL_ABSX, rol_byte)

\* ROR_A tests bit 0 of the old value
arm_ROR(s, instruction) ==
    IF instruction = ROR_A THEN shift_a(s, ror_byte, 0)
    ELSE shift_memory(s, instruction, ROR_ZP, ROR_ZPX, ROR_ABS, ROR_ABSX, ror_byte)

arm_JMP(s, instruction) ==
    Then(IF instruction = JMP_ABS THEN absolute_addressing(s)
         ELSE indirect_addressing(s), LAMBDA s1 :
    set_pc(s1, s1.ret))

\* low byte fetched, one discarded cycle, pc pushed high then low at
\* memory[sp], high byte fetched
arm_JSR(s) ==
    Then(debit(fetch_byte(s)), LAMBDA s1 :
    Then(debit(dec_sp(store(s1, s1.sp, s1.pc \div 256))), LAMBDA s2 :
    Then(debit(dec_sp(store(s2, s2.sp, s2.pc % 256))), LAMBDA s3 :
    Then(fetch_byte(s3), LAMBDA s4 :
    set_pc(s4, 256 * s4.ret + s1.ret)))))

arm_RTS(s) ==
    Then(inc_sp(debit(debit(s))), LAMBDA s1 :
    Then(debit(load(s1, s1.sp)), LAMBDA s2 :
    Then(inc_sp(s2), LAMBDA s3 :
    Then(debit(debit(load(s3, s3.sp))), LAMBDA s4 :
    inc_pc(set_pc(s4, 256 * s4.ret + s2.ret))))))

\* `self.pc - (256u16.wrapping_sub(offset as u16))` or `self.pc + offset as u16`
branch_target(s, offset) ==
    IF offset >= 128
    THEN (IF s.pc < 256 - offset THEN Panic(s, "overflow")
          ELSE set_ret(s, s.pc - (256 - offset)))
    ELSE (IF s.pc + offset > WordMax THEN Panic(s, "overflow")
          ELSE set_ret(s, s.pc + offset))

\* the branch of the arm when the carry is clear: one debit, the target, two
\* more debits when the target lies in another page, `self.pc = ..`
take_branch(s1, offset) ==
    Then(branch_target(debit(s1), offset), LAMBDA s2 :
    Then(IF Ok(s2) /\ page(s2.pc) # page(s2.ret)
         THEN debit(debit(s2)) ELSE s2, LAMBDA s3 :
    set_pc(s3, s3.ret)))

\* a branch arm that never takes the branch
arm_BCC_never_taken(s) == fetch_byte(s)

\* the arm `BCC => { .. }`: BCC names no constant, so the arm is entered for
\* every byte that none of the arms above matched
arm_BCC(s) ==
    Then(fetch_byte(s), LAMBDA s1 :
    IF ~carry_flag(s1.p) THEN take_branch(s1, s1.ret) ELSE s1)

(***************************************************************************)
(* The state.  pc sp a x y p are the fields of CPU, memory the host's      *)
(* Memory, cycles the local budget of execute.  phase is where the host    *)
(* and execute stand:                                                      *)
(*   "new"      CPU::default() and the loaded Memory                       *)
(*   "poked"    the host assigned the pub fields before calling reset      *)
(*   "reset"    reset was called on the default CPU                        *)
(*   "ready"    reset was called and the pub fields are assigned           *)
(*   "running"  inside the while loop of execute, at its head, cycles > 0  *)
(*   "returned" execute returned                                           *)
(*   "panicked" execute ended in a panic, kept in fault                    *)
(* host is what the host chose: the memory image it loads, the register    *)
(* values it assigns and the budget it passes.  last records the step      *)
(* taken last: the host call or the arm entered, the opcode byte, the      *)
(* state before the step and the memory cells the step indexed.  trace     *)
(* lists the loop iterations of the running call of execute, each with the *)
(* registers and the budget it started from.                               *)
(***************************************************************************)
VARIABLES pc, sp, a, x, y, p, memory, cycles, phase, fault, host, last, trace

vars == <<pc, sp, a, x, y, p, memory, cycles, phase, fault, host, last, trace>>

cpu == <<pc, sp, a, x, y, p>>

NoLast == [arm |-> "none", op |-> 0, pre |-> <<>>, acc |-> <<>>]

\* (self, cycles, memory) at the head of the loop
Cur ==
    [pc |-> pc, sp |-> sp, a |-> a, x |-> x, y |-> y, p |-> p,
     memory |-> memory, cycles |-> cycles, fault |-> "none", ret |-> 0, acc |-> <<>>]

\* the state a step starts from, as last keeps it
Pre ==
    [pc |-> pc, sp |-> sp, a |-> a, x |-> x, y |-> y, p |-> p,
     memory |-> memory, cycles |-> cycles]

Step(arm, op, acc) == [arm |-> arm, op |-> op, pre |-> Pre, acc |-> acc]

\* an iteration as trace keeps it
Iteration(arm, op) ==
    [arm |-> arm, op |-> op, pc |-> pc, sp |-> sp, a |-> a, x |-> x, y |-> y,
     p |-> p, cycles |-> cycles]

\* `let instruction = self.fetch_byte(&mut cycles, memory);`
Fetched == fetch_byte(Cur)

\* the end of a loop iteration under a loop test `while cycles > 1`
Commit_while_above_one(arm, s) ==
    /\ pc' = s.pc /\ sp' = s.sp /\ a' = s.a /\ x' = s.x /\ y' = s.y /\ p' = s.p
    /\ memory' = s.memory
    /\ cycles' = s.cycles
    /\ fault' = s.fault
    /\ phase' = IF s.fault # "none" THEN "panicked"
                ELSE IF s.cycles > 1 THEN "running" ELSE "returned"
    /\ last' = Step(arm, Fetched.ret, s.acc)
    /\ trace' = Append(trace, Iteration(arm, Fetched.ret))
    /\ UNCHANGED host

\* the end of a loop iteration: the arm's state becomes the state, and the
\* `while cycles > 0` test decides between another iteration and the return
Commit(arm, s) ==
    /\ pc' = s.pc /\ sp' = s.sp /\ a' = s.a /\ x' = s.x /\ y' = s.y /\ p' = s.p
    /\ memory' = s.memory
    /\ cycles' = s.cycles
    /\ fault' = s.fault
    /\ phase' = IF s.fault # "none" THEN "panicked"
                ELSE IF s.cycles > 0 THEN "running" ELSE "returned"
    /\ last' = Step(arm, Fetched.ret, s.acc)
    /\ trace' = Append(trace, Iteration(arm, Fetched.ret))
    /\ UNCHANGED host

\* the opcode fetch succeeded and the match selects an arm for one of ops
Dispatch(ops) == phase = "running" /\ Ok(Fetched) /\ Fetched.ret \in ops

(* ---- the host: tests/lda.rs ---- *)
\* a reset that also clears the status register
reset_clearing_p ==
    /\ phase \in {"new", "poked"}
    /\ pc' = Read(memory, 65532) + 256 * Read(memory, 65533)
    /\ sp' = 255
    /\ p' = 0
    /\ phase' = IF phase = "new" THEN "reset" ELSE "ready"
    /\ last' = Step("reset", 0, <<<<"r", 65532>>, <<"r", 65533>>>>)
    /\ UNCHANGED <<a, x, y, memory, cycles, fault, host, trace>>

\* CPU::reset
reset ==
    /\ phase \in {"new", "poked"}
    /\ pc' = Read(memory, 65532) + 256 * Read(memory, 65533)
    /\ sp' = 255
    /\ phase' = IF phase = "new" THEN "reset" ELSE "ready"
    /\ last' = Step("reset", 0, <<<<"r", 65532>>, <<"r", 65533>>>>)
    /\ UNCHANGED <<a, x, y, p, memory, cycles, fault, host, trace>>

\* the host assigns the pub fields of CPU (`cpu.x = 0x01;`), before or after reset
poke ==
    /\ phase \in {"new", "reset"}
    /\ a' = host.a /\ x' = host.x /\ y' = host.y /\ p' = host.p /\ sp' = host.sp
    /\ phase' = IF phase = "new" THEN "poked" ELSE "ready"
    /\ last' = Step("poke", 0, <<>>)
    /\ UNCHANGED <<pc, memory, cycles, fault, host, trace>>

\* the call `cpu.execute(budget, &mut mem)` up to the first loop test
execute ==
    /\ phase = "ready"
    /\ cycles' = host.budget
    /\ phase' = IF host.budget > 0 THEN "running" ELSE "returned"
    /\ last' = Step("execute", 0, <<>>)
    /\ trace' = <<>>
    /\ UNCHANGED <<cpu, memory, fault, host>>

(* ---- one loop iteration of execute per action ---- *)
\* the opcode fetch itself panics (`self.pc += 1` at 0xFFFF)
FetchPanic == phase = "running" /\ ~Ok(Fetched) /\ Commit("fetch", Fetched)

OpsLDA == {LDA_IM, LDA_ZP, LDA_ZPX, LDA_ABS, LDA_ABSX, LDA_ABSY, LDA_INDX, LDA_INDY}
OpsLDX == {LDX_IM, LDX_ZP, LDX_ZPY, LDX_ABS, LDX_ABSY}
OpsLDY == {LDY_IM, LDY_ZP, LDY_ZPX, LDY_ABS, LDY_ABSX}
OpsSTA == {STA_ZP, STA_ZPX, STA_ABS, STA_ABSX, STA_ABSY, STA_INDX, STA_INDY}
OpsSTX == {STX_ZP, STX_ZPY, STX_ABS}
OpsSTY == {STY_ZP, STY_ZPX, STY_ABS}
OpsAND == {AND_IM, AND_ZP, AND_ZPX, AND_ABS, AND_ABSX, AND_ABSY, AND_INDX, AND_INDY}
OpsEOR == {EOR_IM, EOR_ZP, EOR_ZPX, EOR_ABS, EOR_ABSX, EOR_ABSY, EOR_INDX, EOR_INDY}
OpsORA == {ORA_IM, ORA_ZP, ORA_ZPX, ORA_ABS, ORA_ABSX, ORA_ABSY, ORA_INDX, ORA_INDY}
OpsBIT == {BIT_ZP, BIT_ABS}
OpsADC == {ADC_IM, ADC_ZP, ADC_ZPX, ADC_ABS, ADC_ABSX, ADC_ABSY, ADC_INDX, ADC_INDY}
OpsSBC == {SBC_IM, SBC_ZP, SBC_ZPX, SBC_ABS, SBC_ABSX, SBC_ABSY, SBC_INDX, SBC_INDY}
OpsCMP == {CMP_IM, CMP_ZP, CMP_ZPX, CMP_ABS, CMP_ABSX, CMP_ABSY, CMP_INDX, CMP_INDY}
OpsCPX == {CPX_IM, CPX_ZP, CPX_ABS}
OpsCPY == {CPY_IM, CPY_ZP, CPY_ABS}
OpsINC == {INC_ZP, INC_ZPX, INC_ABS, INC_ABSX}
OpsDEC == {DEC_ZP, DEC_ZPX, DEC_ABS, DEC_ABSX}
OpsASL == {ASL_A, ASL_ZP, ASL_ZPX, ASL_ABS, ASL_ABSX}
OpsLSR == {LSR_A, LSR_ZP, LSR_ZPX, LSR_ABS, LSR_ABSX}
OpsROL == {ROL_A, ROL_ZP, ROL_ZPX, ROL_ABS, ROL_ABSX}
OpsROR == {ROR_A, ROR_ZP, ROR_ZPX, ROR_ABS, ROR_ABSX}
OpsJMP == {JMP_ABS, JMP_IND}

\* the bytes matched by the 133 constant patterns of the match
ConstArms ==
    OpsLDA \cup OpsLDX \cup OpsLDY \cup OpsSTA \cup OpsSTX \cup OpsSTY
    \cup {TAX, TAY, TXA, TYA, TSX, TXS, PHA, PHP, PLA, PLP}
    \cup OpsAND \cup OpsEOR \cup OpsORA \cup OpsBIT \cup OpsADC \cup OpsSBC
    \cup OpsCMP \cup OpsCPX \cup OpsCPY \cup OpsINC \cup {INX, INY}
    \cup OpsDEC \cup {DEX, DEY} \cup OpsASL \cup OpsLSR \cup OpsROL \cup OpsROR
    \cup OpsJMP \cup {JSR, RTS}

ExecLDA == Dispatch(OpsLDA) /\ Commit("LDA", arm_LDA(Fetched, Fetched.ret))
ExecLDX == Dispatch(OpsLDX) /\ Commit("LDX", arm_LDX(Fetched, Fetched.ret))
ExecLDY == Dispatch(OpsLDY) /\ Commit("LDY", arm_LDY(Fetched, Fetched.ret))
ExecSTA == Dispatch(OpsSTA) /\ Commit("STA", arm_STA(Fetched, Fetched.ret))
ExecSTX == Dispatch(OpsSTX) /\ Commit("STX", arm_STX(Fetched, Fetched.ret))
ExecSTY == Dispatch(OpsSTY) /\ Commit("STY", arm_STY(Fetched, Fetched.ret))
ExecTAX == Dispatch({TAX}) /\ Commit("TAX", arm_TAX(Fetched))
ExecTAY == Dispatch({TAY}) /\ Commit("TAY", arm_TAY(Fetched))
ExecTXA == Dispatch({TXA}) /\ Commit("TXA", arm_TXA(Fetched))
ExecTYA == Dispatch({TYA}) /\ Commit("TYA", arm_TYA(Fetched))
ExecTSX == Dispatch({TSX}) /\ Commit("TSX", arm_TSX(Fetched))
ExecTXS == Dispatch({TXS}) /\ Commit("TXS", arm_TXS(Fetched))
ExecPHA == Dispatch({PHA}) /\ Commit("PHA", arm_PHA(Fetched))
ExecPHP == Dispatch({PHP}) /\ Commit("PHP", arm_PHP(Fetched))
ExecPLA == Dispatch({PLA}) /\ Commit("PLA", arm_PLA(Fetched))
ExecPLP == Dispatch({PLP}) /\ Commit("PLP", arm_PLP(Fetched))
ExecAND == Dispatch(OpsAND) /\ Commit("AND", arm_AND(Fetched, Fetched.ret))
ExecEOR == Dispatch(OpsEOR) /\ Commit("EOR", arm_EOR(Fetched, Fetched.ret))
ExecORA == Dispatch(OpsORA) /\ Commit("ORA", arm_ORA(Fetched, Fetched.ret))
ExecBIT == Dispatch(OpsBIT) /\ Commit("BIT", arm_BIT(Fetched, Fetched.ret))
ExecADC == Dispatch(OpsADC) /\ Commit("ADC", arm_ADC(Fetched, Fetched.ret))
ExecSBC == Dispatch(OpsSBC) /\ Commit("SBC", arm_SBC(Fetched, Fetched.ret))
ExecCMP == Dispatch(OpsCMP) /\ Commit("CMP", arm_CMP(Fetched, Fetched.ret))
ExecCPX == Dispatch(OpsCPX) /\ Commit("CPX", arm_CPX(Fetched, Fetched.ret))
ExecCPY == Dispatch(OpsCPY) /\ Commit("CPY", arm_CPY(Fetched, Fetched.ret))
ExecINC == Dispatch(OpsINC) /\ Commit("INC", arm_INC(Fetched, Fetched.ret))
ExecINX == Dispatch({INX}) /\ Commit("INX", arm_INX(Fetched))
ExecINY == Dispatch({INY}) /\ Commit("INY", arm_INY(Fetched))
ExecDEC == Dispatch(OpsDEC) /\ Commit("DEC", arm_DEC(Fetched, Fetched.ret))
ExecDEX == Dispatch({DEX}) /\ Commit("DEX", arm_DEX(Fetched))
ExecDEY == Dispatch({DEY}) /\ Commit("DEY", arm_DEY(Fetched))
ExecASL == Dispatch(OpsASL) /\ Commit("ASL", arm_ASL(Fetched, Fetched.ret))
ExecLSR == Dispatch(OpsLSR) /\ Commit("LSR", arm_LSR(Fetched, Fetched.ret))
ExecROL == Dispatch(OpsROL) /\ Commit("ROL", arm_ROL(Fetched, Fetched.ret))
ExecROR == Dispatch(OpsROR) /\ Commit("ROR", arm_ROR(Fetched, Fetched.ret))
ExecJMP == Dispatch(OpsJMP) /\ Commit("JMP", arm_JMP(Fetched, Fetched.ret))
ExecJSR == Dispatch({JSR}) /\ Commit("JSR", arm_JSR(Fetched))
ExecRTS == Dispatch({RTS}) /\ Commit("RTS", arm_RTS(Fetched))
ExecBCC == Dispatch(0..255 \ ConstArms) /\ Commit("BCC", arm_BCC(Fetched))

Next ==
    \/ reset \/ poke \/ execute \/ FetchPanic
    \/ ExecLDA \/ ExecLDX \/ ExecLDY \/ ExecSTA \/ ExecSTX \/ ExecSTY
    \/ ExecTAX \/ ExecTAY \/ ExecTXA \/ ExecTYA \/ ExecTSX \/ ExecTXS
    \/ ExecPHA \/ ExecPHP \/ ExecPLA \/ ExecPLP
    \/ ExecAND \/ ExecEOR \/ ExecORA \/ ExecBIT \/ ExecADC \/ ExecSBC
    \/ ExecCMP \/ ExecCPX \/ ExecCPY
    \/ ExecINC \/ ExecINX \/ ExecINY \/ ExecDEC \/ ExecDEX \/ ExecDEY
    \/ ExecASL \/ ExecLSR \/ ExecROL \/ ExecROR
    \/ ExecJMP \/ ExecJSR \/ ExecRTS \/ ExecBCC

(***************************************************************************)
(* The documented instruction set (spec sections 4.1, 4.2 and 8), used to  *)
(* lay out the inputs and to state the claims: the opcode bytes, the       *)
(* addressing mode of an opcode, its length, its effective address and its *)
(* cycle count.                                                            *)
(***************************************************************************)
\* BPL BMI BVC BVS BCC BCS BNE BEQ
DocBranches == {16, 48, 80, 112, 144, 176, 208, 240}

\* CLC SEC CLI SEI CLV CLD SED
DocFlagOps == {24, 56, 88, 120, 184, 216, 248}

\* BRK RTI NOP
DocBRK == {0}
DocRTI == {64}
DocNOP == {234}

\* the 151 documented opcode bytes
DocOpcodes == ConstArms \cup DocBranches \cup DocFlagOps \cup DocBRK \cup DocRTI \cup DocNOP

\* the handler a documented opcode byte belongs to
DocHandler(op) ==
    CASE op \in OpsLDA -> "LDA" [] op \in OpsLDX -> "LDX" [] op \in OpsLDY -> "LDY"
      [] op \in OpsSTA -> "STA" [] op \in OpsSTX -> "STX" [] op \in OpsSTY -> "STY"
      [] op = TAX -> "TAX" [] op = TAY -> "TAY" [] op = TXA -> "TXA"
      [] op = TYA -> "TYA" [] op = TSX -> "TSX" [] op = TXS -> "TXS"
      [] op = PHA -> "PHA" [] op = PHP -> "PHP" [] op = PLA -> "PLA"
      [] op = PLP -> "PLP"
      [] op \in OpsAND -> "AND" [] op \in OpsEOR -> "EOR" [] op \in OpsORA -> "ORA"
      [] op \in OpsBIT -> "BIT" [] op \in OpsADC -> "ADC" [] op \in OpsSBC -> "SBC"
      [] op \in OpsCMP -> "CMP" [] op \in OpsCPX -> "CPX" [] op \in OpsCPY -> "CPY"
      [] op \in OpsINC -> "INC" [] op = INX -> "INX" [] op = INY -> "INY"
      [] op \in OpsDEC -> "DEC" [] op = DEX -> "DEX" [] op = DEY -> "DEY"
      [] op \in OpsASL -> "ASL" [] op \in OpsLSR -> "LSR" [] op \in OpsROL -> "ROL"
      [] op \in OpsROR -> "ROR" [] op \in OpsJMP -> "JMP" [] op = JSR -> "JSR"
      [] op = RTS -> "RTS"
      [] op = 16 -> "BPL" [] op = 48 -> "BMI" [] op = 80 -> "BVC" [] op = 112 -> "BVS"
      [] op = 144 -> "BCC" [] op = 176 -> "BCS" [] op = 208 -> "BNE" [] op = 240 -> "BEQ"
      [] op = 24 -> "CLC" [] op = 56 -> "SEC" [] op = 88 -> "CLI" [] op = 120 -> "SEI"
      [] op = 184 -> "CLV" [] op = 216 -> "CLD" [] op = 248 -> "SED"
      [] op = 0 -> "BRK" [] op = 64 -> "RTI" [] op = 234 -> "NOP"
      [] OTHER -> "unknown"

DocMode(op) ==
    CASE op \in {LDA_IM, LDX_IM, LDY_IM, AND_IM, EOR_IM, ORA_IM, ADC_IM, SBC_IM,
                 CMP_IM, CPX_IM, CPY_IM} -> "IM"
      [] op \in {LDA_ZP, LDX_ZP, LDY_ZP, STA_ZP, STX_ZP, STY_ZP, AND_ZP, EOR_ZP,
                 ORA_ZP, BIT_ZP, ADC_ZP, SBC_ZP, CMP_ZP, CPX_ZP, CPY_ZP, INC_ZP,
                 DEC_ZP, ASL_ZP, LSR_ZP, ROL_ZP, ROR_ZP} -> "ZP"
      [] op \in {LDA_ZPX, LDY_ZPX, STA_ZPX, STY_ZPX, AND_ZPX, EOR_ZPX, ORA_ZPX,
                 ADC_ZPX, SBC_ZPX, CMP_ZPX, INC_ZPX, DEC_ZPX, ASL_ZPX, LSR_ZPX,
                 ROL_ZPX, ROR_ZPX} -> "ZPX"
      [] op \in {LDX_ZPY, STX_ZPY} -> "ZPY"
      [] op \in {LDA_ABS, LDX_ABS, LDY_ABS, STA_ABS, STX_ABS, STY_ABS, AND_ABS,
                 EOR_ABS, ORA_ABS, BIT_ABS, ADC_ABS, SBC_ABS, CMP_ABS, CPX_ABS,
                 CPY_ABS, INC_ABS, DEC_ABS, ASL_ABS, LSR_ABS, ROL_ABS, ROR_ABS,
                 JMP_ABS, JSR} -> "ABS"
      [] op \in {LDA_ABSX, LDY_ABSX, STA_ABSX, AND_ABSX, EOR_ABSX, ORA_ABSX,
                 ADC_ABSX, SBC_ABSX, CMP_ABSX, INC_ABSX, DEC_ABSX, ASL_ABSX,
                 LSR_ABSX, ROL_ABSX, ROR_ABSX} -> "ABSX"
      [] op \in {LDA_ABSY, LDX_ABSY, STA_ABSY, AND_ABSY, EOR_ABSY, ORA_ABSY,
                 ADC_ABSY, SBC_ABSY, CMP_ABSY} -> "ABSY"
      [] op \in {LDA_INDX, STA_INDX, AND_INDX, EOR_INDX, ORA_INDX, ADC_INDX,
                 SBC_INDX, CMP_INDX} -> "INDX"
      [] op \in {LDA_INDY, STA_INDY, AND_INDY, EOR_INDY, ORA_INDY, ADC_INDY,
                 SBC_INDY, CMP_INDY} -> "INDY"
      [] op = JMP_IND -> "IND"
      [] op \in DocBranches -> "REL"
      [] OTHER -> "IMP"

\* opcode byte plus operand bytes
DocLen(op) ==
    CASE DocMode(op) \in {"ABS", "ABSX", "ABSY", "IND"} -> 3
      [] DocMode(op) = "IMP" -> 1
      [] OTHER -> 2

\* the zero-page cell holding the low byte of the pointer of (ind,X) and (ind),Y
DocPointer(op, lo, xr) == IF DocMode(op) = "INDX" THEN (lo + xr) % 256 ELSE lo

\* the little-endian word an (ind,X) or (ind),Y pointer holds; the high byte
\* is taken from the next cell of page zero
DocPointerWord(m, ptr) == Read(m, ptr) + 256 * Read(m, (ptr + 1) % 256)

\* the base address an indexed mode adds its index to
DocBase(op, lo, hi, xr, m) ==
    CASE DocMode(op) \in {"ABSX", "ABSY"} -> lo + 256 * hi
      [] DocMode(op) = "INDY" -> DocPointerWord(m, lo)
      [] OTHER -> 0

\* the effective address of the operand of the instruction <<op, lo, hi>> at
\* address at, with registers xr, yr and memory m
DocEA(op, at, lo, hi, xr, yr, m) ==
    CASE DocMode(op) = "IM" -> (at + 1) % 65536
      [] DocMode(op) = "ZP" -> lo
      [] DocMode(op) = "ZPX" -> (lo + xr) % 256
      [] DocMode(op) = "ZPY" -> (lo + yr) % 256
      [] DocMode(op) = "ABS" -> lo + 256 * hi
      [] DocMode(op) = "ABSX" -> (lo + 256 * hi + xr) % 65536
      [] DocMode(op) = "ABSY" -> (lo + 256 * hi + yr) % 65536
      [] DocMode(op) = "INDX" -> DocPointerWord(m, (lo + xr) % 256)
      [] DocMode(op) = "INDY" -> (DocPointerWord(m, lo) + yr) % 65536
      [] OTHER -> 0

\* page crossed: the indexed address lies in another page than its base
DocCrossed(op, at, lo, hi, xr, yr, m) ==
    /\ DocMode(op) \in {"ABSX", "ABSY", "INDY"}
    /\ page(DocBase(op, lo, hi, xr, m)) # page(DocEA(op, at, lo, hi, xr, yr, m))

\* the flag condition of a branch
DocTaken(op, bits) ==
    CASE op = 16 -> ~negative_flag(bits) [] op = 48 -> negative_flag(bits)
      [] op = 80 -> ~overflow_flag(bits) [] op = 112 -> overflow_flag(bits)
      [] op = 144 -> ~carry_flag(bits) [] op = 176 -> carry_flag(bits)
      [] op = 208 -> ~zero_flag(bits) [] op = 240 -> zero_flag(bits)
      [] OTHER -> FALSE

\* PC_after_fetch + signext(offset), for the branch <<op, lo>> at address at
DocTarget(at, lo) == (at + 2 + (IF lo >= 128 THEN lo - 256 ELSE lo)) % 65536

\* the documented cycle count of an instruction that reads its operand
\* (loads, logic, BIT, ADC, SBC, compares)
DocLoadCycles(op, crossed) ==
    CASE DocMode(op) = "IM" -> 2
      [] DocMode(op) = "ZP" -> 3
      [] DocMode(op) \in {"ZPX", "ZPY", "ABS"} -> 4
      [] DocMode(op) \in {"ABSX", "ABSY"} -> IF crossed THEN 5 ELSE 4
      [] DocMode(op) = "INDX" -> 6
      [] DocMode(op) = "INDY" -> IF crossed THEN 6 ELSE 5

DocStoreCycles(op) ==
    CASE DocMode(op) = "ZP" -> 3
      [] DocMode(op) \in {"ZPX", "ZPY", "ABS"} -> 4
      [] DocMode(op) \in {"ABSX", "ABSY"} -> 5
      [] DocMode(op) \in {"INDX", "INDY"} -> 6

\* memory read-modify-write
DocRmwCycles(op) ==
    CASE DocMode(op) = "ZP" -> 5
      [] DocMode(op) \in {"ZPX", "ABS"} -> 6
      [] DocMode(op) = "ABSX" -> 7

\* the documented cycle count of the instruction <<op, lo, hi>> at address at
DocCycles(op, at, lo, hi, xr, yr, bits, m) ==
    CASE op \in OpsSTA \cup OpsSTX \cup OpsSTY -> DocStoreCycles(op)
      [] op \in (OpsINC \cup OpsDEC \cup OpsASL \cup OpsLSR \cup OpsROL \cup OpsROR)
              \ {ASL_A, LSR_A, ROL_A, ROR_A} -> DocRmwCycles(op)
      [] op \in {PHA, PHP, JMP_ABS} -> 3
      [] op \in {PLA, PLP} -> 4
      [] op = JMP_IND -> 5
      [] op \in {JSR, RTS} \cup DocRTI -> 6
      [] op \in DocBRK -> 7
      [] op \in DocBranches ->
            IF ~DocTaken(op, bits) THEN 2
            ELSE IF page(DocTarget(at, lo)) # page((at + 2) % 65536) THEN 4 ELSE 3
      [] DocMode(op) = "IMP" -> 2
      [] OTHER -> DocLoadCycles(op, DocCrossed(op, at, lo, hi, xr, yr, m))

(***************************************************************************)
(* The inputs: the memory images the host loads, the register values it    *)
(* assigns and the budgets it passes, generalising tests/lda.rs.           *)
(***************************************************************************)
\* the reset-vector target of every test of tests/lda.rs: 0xE000
Org == 57344

\* the largest budget passed to execute for one instruction
MaxBudget == 7

\* the budget passed for the two PHA, PLA pairs
PairBudget == 14

Canon(m) == [k \in {j \in DOMAIN m : m[j] # 0} |-> m[k]]

\* mem[0xFFFC], mem[0xFFFD]
Vector(org) == (65532 :> (org % 256)) @@ (65533 :> (org \div 256))

Bytes(base, seq) ==
    [k \in {j \in base .. (base + Len(seq) - 1) : j < MemSize} |-> seq[k - base + 1]]

\* the bytes of the instruction: as many as the opcode takes
Instr(op, lo, hi) == SubSeq(<<op, lo, hi>>, 1, DocLen(op))

\* the pointer cells of (ind,X) and (ind),Y holding the word pw
PointerCells(op, lo, xr, pw) ==
    IF DocMode(op) \in {"INDX", "INDY"}
    THEN (DocPointer(op, lo, xr) :> (pw % 256))
         @@ (((DocPointer(op, lo, xr) + 1) % 256) :> (pw \div 256))
    ELSE <<>>

\* a test of tests/lda.rs: the vector, one instruction at org, its pointer and
\* the byte d at its effective address; the rest of the memory is zero
OneInstr(org, op, lo, hi, xr, yr, pw, d) ==
    LET ptrs == PointerCells(op, lo, xr, pw)
    IN  Canon(Vector(org) @@ Bytes(org, Instr(op, lo, hi)) @@ ptrs
              @@ (DocEA(op, org, lo, hi, xr, yr, ptrs) :> d))

Scenario(image, ar, xr, yr, pr, spr, budget) ==
    [image |-> image, a |-> ar, x |-> xr, y |-> yr, p |-> pr, sp |-> spr,
     budget |-> budget]

ZpOperands == {3, 134, 255}
AbsOperands == {8191, 8208, 57347, 65535}
PointerWords == {8191, 8432}
IndexValues == {0, 1}
DataBytes == {153, 202}

OperandsOf(op) ==
    CASE DocMode(op) = "IM" -> {0}
      [] DocMode(op) \in {"ABS", "ABSX", "ABSY", "IND"} -> AbsOperands
      [] OTHER -> ZpOperands

PointersOf(op) == IF DocMode(op) \in {"INDX", "INDY"} THEN PointerWords ELSE {0}

\* one load instruction at 0xE000, every budget from 1 to MaxBudget
LoadScenarios ==
    UNION { { Scenario(OneInstr(Org, op, IF DocMode(op) = "IM" THEN d ELSE w % 256,
                                w \div 256, xr, yr, pw, d),
                       0, xr, yr, 0, 255, b) :
                w \in OperandsOf(op), pw \in PointersOf(op), xr \in IndexValues,
                yr \in IndexValues, d \in DataBytes, b \in 1 .. MaxBudget } :
            op \in OpsLDA \cup OpsLDX \cup OpsLDY }

\* every opcode byte once, operands 0x10 0x02: at several reset-vector
\* targets with the largest budget, and at 0xE000 with every smaller budget
TourOrigins == {16, 57344, 65535}

TourImage(org, op) ==
    Canon(Vector(org) @@ Bytes(org, <<op, 16, 2>>) @@ (16 :> 32) @@ (17 :> 2))

TourScenarios ==
    { Scenario(TourImage(org, op), 129, 1, 2, pr, spr, MaxBudget) :
        op \in 0 .. 255, org \in TourOrigins, pr \in {0, 195}, spr \in {128, 255} }
    \cup { Scenario(TourImage(Org, op), 129, 1, 2, 0, 255, b) :
             op \in 0 .. 255, b \in 0 .. MaxBudget - 1 }

\* ADC, SBC and the compares: register and operand values around the sign
\* and carry boundaries, carry clear, carry set, and every flag set
AluValues == {0, 1, 80, 127, 128, 255}
AluFlags == {0, 1, 195}

AluImage(op, r, m) ==
    OneInstr(Org, op, IF DocMode(op) = "IM" THEN m ELSE 16, 32,
             IF op \in OpsCPX THEN r ELSE 1, IF op \in OpsCPY THEN r ELSE 1, 8432, m)

AluScenarios ==
    { Scenario(AluImage(op, r, m), r, IF op \in OpsCPX THEN r ELSE 1,
               IF op \in OpsCPY THEN r ELSE 1, pr, 255, MaxBudget) :
        op \in OpsADC \cup OpsSBC \cup OpsCMP \cup OpsCPX \cup OpsCPY,
        r \in AluValues, m \in AluValues, pr \in AluFlags }

\* PHA PLA PHA PLA at 0xE000
StackPointers == {0, 1, 128, 254, 255}

StackScenarios ==
    { Scenario(Canon(Vector(Org) @@ Bytes(Org, <<PHA, PLA, PHA, PLA>>)),
               ar, 1, 2, pr, spr, PairBudget) :
        ar \in AluValues, pr \in AluFlags, spr \in StackPointers }

\* JSR addr at 0xE000 with RTS at addr, run with the documented 6 + 6 cycles
CallTargets == {255, 528}
CallCost == 6 + 6

CallImage(addr) ==
    Canon(Vector(Org) @@ Bytes(Org, <<JSR, addr % 256, addr \div 256>>)
          @@ Bytes(addr, <<RTS>>))

\* JSR 0x0210 at 0xE000; JSR 0x0300, RTS at 0x0210; RTS at 0x0300
NestedImage ==
    Canon(Vector(Org) @@ Bytes(Org, <<JSR, 16, 2>>)
          @@ Bytes(528, <<JSR, 0, 3, RTS>>) @@ Bytes(768, <<RTS>>))

CallScenarios ==
    { Scenario(CallImage(addr), 129, 1, 2, 0, spr, CallCost) :
        addr \in CallTargets, spr \in StackPointers }
    \cup { Scenario(NestedImage, 129, 1, 2, 0, spr, 2 * CallCost) :
             spr \in StackPointers }

\* every zero-page,X and zero-page,Y instruction with operand 0xFE and
\* X = Y = 3; the byte 0x99 lies at 0x0001
ZpIndexedOps == {op \in ConstArms : DocMode(op) \in {"ZPX", "ZPY"}}

ZpIndexScenarios ==
    { Scenario(OneInstr(Org, op, 254, 0, 3, 3, 0, 153), ar, 3, 3, 0, 255, MaxBudget) :
        op \in ZpIndexedOps, ar \in {1, 129} }

\* JMP and JMP (ind) at 0xE000: operands 0x0210, 0x02FF and 0xFFFF, with
\* distinct bytes at 0x0200, 0x0210, 0x0211, 0x02FF, 0x0300, 0xFF00, 0xFFFF
JumpOperands == {528, 767, 65535}

JumpImage(op, w) ==
    Canon(Vector(Org) @@ Bytes(Org, <<op, w % 256, w \div 256>>)
          @@ (512 :> 18) @@ (528 :> 120) @@ (529 :> 33) @@ (767 :> 52)
          @@ (768 :> 86) @@ (65280 :> 35) @@ (65535 :> 64))

JumpScenarios ==
    { Scenario(JumpImage(op, w), 129, 1, 2, 0, 255, b) :
        op \in OpsJMP, w \in JumpOperands, b \in {3, 5, MaxBudget} }

\* every branch opcode at 0x0010, 0xE000 and 0xE0F0, offsets +16, -128 and
\* -3, with no flag set and with N, V, Z and C set
BranchOrigins == {16, 57344, 57584}
BranchOffsets == {16, 128, 253}

BranchScenarios ==
    { Scenario(Canon(Vector(org) @@ Bytes(org, <<op, off>>)), 129, 1, 2, pr, 255, b) :
        op \in DocBranches, org \in BranchOrigins, off \in BranchOffsets,
        pr \in {0, 195}, b \in 2 .. 5 }

\* the number of passes of the counting loop
LoopCount == 5

\* LDX #0; label: INX; CPX #LoopCount; BNE label, with the sum of the
\* documented cycle counts: LDX 2, INX 2 and CPX 2 on each pass, BNE 3 on
\* each pass but the last and 2 on the last
LoopImage ==
    Canon(Vector(Org) @@ Bytes(Org, <<LDX_IM, 0, INX, CPX_IM, LoopCount, 208, 251>>))

LoopCost == 2 + LoopCount * (2 + 2) + (LoopCount - 1) * 3 + 2

LoopScenarios ==
    { Scenario(LoopImage, ar, xr, 2, pr, 255, LoopCost) :
        ar \in {0, 129}, xr \in {0, 1, 200}, pr \in AluFlags }

\* every memory read-modify-write instruction on the byte 0x99: zero page
\* 0x10, absolute 0x2010 and 0x20FF, X = 1
RmwOps ==
    (OpsINC \cup OpsDEC \cup OpsASL \cup OpsLSR \cup OpsROL \cup OpsROR)
    \ {ASL_A, LSR_A, ROL_A, ROR_A}

RmwOperands(op) == IF DocMode(op) \in {"ABS", "ABSX"} THEN {8208, 8447} ELSE {16}

RmwScenarios ==
    UNION { { Scenario(OneInstr(Org, op, w % 256, w \div 256, 1, 2, 0, 153),
                       129, 1, 2, pr, 255, MaxBudget) :
                w \in RmwOperands(op), pr \in {0, 1} } :
            op \in RmwOps }

\* BIT $10 and BIT $2010: A and the operand with bits 7 and 6 set and
\* clear, P with no flag, with the carry, and with N, V, Z and C
BitValues == {0, 64, 128, 192, 255}

BitScenarios ==
    { Scenario(OneInstr(Org, op, 16, 32, 1, 2, 0, m), ar, 1, 2, pr, 255, MaxBudget) :
        op \in OpsBIT, ar \in {0, 192, 255}, m \in BitValues, pr \in AluFlags }

\* every shift and rotate in accumulator and in zero-page form, on source
\* bytes around the bit 0 and bit 7 boundaries, with the carry clear and set
ShiftOps ==
    {ASL_A, LSR_A, ROL_A, ROR_A, ASL_ZP, LSR_ZP, ROL_ZP, ROR_ZP}

ShiftScenarios ==
    { Scenario(OneInstr(Org, op, 16, 0, 1, 2, 0, src), src, 1, 2, pr, 255, MaxBudget) :
        op \in ShiftOps, src \in AluValues, pr \in AluFlags }

\* PLP at 0xE000 with SP = 0x80: the byte to pull lies at 0x0081 and at
\* 0x0181; PHP at 0xE000 with every value of P the host can assign
PullBytes == {0, 16, 32, 48, 195, 207, 255}
PushFlags == {0, 1, 16, 195, 207, 223}

PullScenarios ==
    { Scenario(Canon(Vector(Org) @@ Bytes(Org, <<PLP>>) @@ (129 :> b) @@ (385 :> b)),
               129, 1, 2, pr, 128, MaxBudget) :
        b \in PullBytes, pr \in {0, 195} }
    \cup { Scenario(Canon(Vector(Org) @@ Bytes(Org, <<PHP>>)), 129, 1, 2, pr, spr,
                    MaxBudget) :
             pr \in PushFlags, spr \in {128, 255} }

\* BRK at 0xE000, the IRQ/BRK vector at 0x0300, RTI at 0x0300, run with
\* the documented 7 + 6 cycles
BreakImage ==
    Canon(Vector(Org) @@ Bytes(Org, <<0, 0, 0>>) @@ (65534 :> 0) @@ (65535 :> 3)
          @@ Bytes(768, <<64>>))

BreakScenarios ==
    { Scenario(BreakImage, 129, 1, 2, pr, spr, 7 + 6) : pr \in {0, 195}, spr \in {128, 255} }

\* INX, INY, DEX, DEY, INC $10 and DEC $10 on values at both ends of the
\* byte range and around the sign
StepOps == {INX, INY, DEX, DEY, INC_ZP, DEC_ZP}

StepScenarios ==
    { Scenario(OneInstr(Org, op, 16, 0, v, v, 0, v), 129, v, v, pr, 255, MaxBudget) :
        op \in StepOps, v \in AluValues, pr \in {0, 195} }

\* every stack instruction with SP at both ends of its range
WrapScenarios ==
    { Scenario(TourImage(Org, op), 129, 1, 2, 0, spr, MaxBudget) :
        op \in {PHA, PHP, JSR, PLA, PLP, RTS}, spr \in StackPointers }

\* LDA ($10),Y with the pointer word 0xFFFF and Y = 2; RTS with the word
\* 0xFFFF on the stack, both at 0x0081 and at 0x0181
WordScenarios ==
    { Scenario(OneInstr(Org, LDA_INDY, 16, 0, 1, 2, 65535, 153), 0, 1, 2, 0, 255,
               MaxBudget),
      Scenario(Canon(Vector(Org) @@ Bytes(Org, <<RTS>>) @@ Bytes(129, <<255, 255>>)
                     @@ Bytes(385, <<255, 255>>)),
               129, 1, 2, 0, 128, MaxBudget) }

\* loads, logic operations and transfers on values around zero and the
\* sign, from P with no flag, with the carry, and with N, V, Z and C
LogicOps ==
    {LDA_IM, LDX_IM, LDY_IM, LDA_ZP, AND_IM, AND_ZP, EOR_IM, EOR_ZP, ORA_IM, ORA_ZP}

LogicScenarios ==
    { Scenario(OneInstr(Org, op, IF DocMode(op) = "IM" THEN m ELSE 16, 0, 1, 2, 0, m),
               ar, 1, 2, pr, 255, MaxBudget) :
        op \in LogicOps, ar \in AluValues, m \in AluValues, pr \in AluFlags }
    \cup { Scenario(TourImage(Org, op), v, v, v, pr, v, MaxBudget) :
             op \in {TAX, TAY, TXA, TYA, TSX, TXS}, v \in AluValues, pr \in AluFlags }

Scenarios ==
    LoadScenarios \cup TourScenarios \cup AluScenarios \cup StackScenarios
    \cup CallScenarios \cup ZpIndexScenarios \cup JumpScenarios
    \cup BranchScenarios \cup LoopScenarios \cup RmwScenarios
    \cup BitScenarios \cup ShiftScenarios \cup PullScenarios
    \cup BreakScenarios \cup StepScenarios
    \cup WrapScenarios \cup WordScenarios
    \cup LogicScenarios

Init ==
    /\ host \in Scenarios
    /\ memory = host.image
    /\ pc = 0 /\ sp = 0 /\ a = 0 /\ x = 0 /\ y = 0 /\ p = 0
    /\ cycles = 0
    /\ phase = "new"
    /\ fault = "none"
    /\ last = NoLast
    /\ trace = <<>>

Spec == Init /\ [][Next]_vars
(***************************************************************************)
(* What the claims speak about: the run the host set up, and the step      *)
(* taken last.                                                             *)
(***************************************************************************)
\* the reset-vector target of the loaded image, and the instruction there
RunVector == Read(host.image, 65532) + 256 * Read(host.image, 65533)
RunOp == Read(host.image, RunVector)
RunLo == Read(host.image, (RunVector + 1) % 65536)
RunHi == Read(host.image, (RunVector + 2) % 65536)

RunEA == DocEA(RunOp, RunVector, RunLo, RunHi, host.x, host.y, host.image)

\* the documented cycle count of the instruction at the reset-vector target
RunCycles ==
    DocCycles(RunOp, RunVector, RunLo, RunHi, host.x, host.y, host.p, host.image)

\* the cells of the vector, the instruction, its pointer and its operand
RunCells ==
    {65532, 65533, RunEA}
    \cup {(RunVector + i) % 65536 : i \in 0 .. DocLen(RunOp) - 1}
    \cup (IF DocMode(RunOp) \in {"INDX", "INDY"}
          THEN {DocPointer(RunOp, RunLo, host.x),
                (DocPointer(RunOp, RunLo, host.x) + 1) % 256}
          ELSE {})

\* the last step is a loop iteration that fetched and dispatched an opcode
Dispatched == last.arm \notin {"none", "reset", "poke", "execute", "fetch"}

\* the last step is the first instruction of the run, at the vector target
FirstStep == Dispatched /\ Len(trace) = 1 /\ last.pre.pc = RunVector

LastLo == Read(last.pre.memory, (last.pre.pc + 1) % 65536)
LastHi == Read(last.pre.memory, (last.pre.pc + 2) % 65536)

\* the documented effective address and cycle count of the last instruction
LastEA ==
    DocEA(last.op, last.pre.pc, LastLo, LastHi, last.pre.x, last.pre.y,
          last.pre.memory)

LastCycles ==
    DocCycles(last.op, last.pre.pc, LastLo, LastHi, last.pre.x, last.pre.y,
              last.pre.p, last.pre.memory)

\* the last instruction ran to its end; M is the operand byte it read last
Completed(arms) == last.arm \in arms /\ fault = "none"
LastOperand == Read(last.pre.memory, last.acc[Len(last.acc)][2])
CarryIn == IF carry_flag(last.pre.p) THEN 1 ELSE 0
LastSum == last.pre.a + LastOperand + CarryIn

(***************************************************************************)
(* C1.  reset sets PC to the little-endian word at $FFFC/$FFFD and SP to   *)
(* $FF, and leaves A, X, Y, every flag of P and all of memory unchanged.   *)
(***************************************************************************)
C1_ResetFrame ==
    last.arm = "reset" =>
        /\ pc = Read(last.pre.memory, 65532) + 256 * Read(last.pre.memory, 65533)
        /\ sp = 255
        /\ a = last.pre.a /\ x = last.pre.x /\ y = last.pre.y /\ p = last.pre.p
        /\ memory = last.pre.memory

\* reset called on a CPU whose registers and flags the host had assigned
C1_ResetAfterPoke ==
    /\ last.arm = "reset"
    /\ last.pre.a = 129 /\ last.pre.x = 1 /\ last.pre.y = 2 /\ last.pre.p = 195
    /\ last.pre.sp = 128
    /\ pc = Org /\ sp = 255 /\ p = 195

(***************************************************************************)
(* C2.  A load (LDA, LDX, LDY, every addressing mode) at the reset-vector  *)
(* target, run with a budget equal to its documented cycle count, returns  *)
(* normally with the budget at 0 and the target register equal to the byte *)
(* at the effective address.                                               *)
(***************************************************************************)
LoadTarget == CASE last.arm = "LDA" -> a [] last.arm = "LDX" -> x [] OTHER -> y

C2_LoadExactBudget ==
    (FirstStep /\ last.arm \in {"LDA", "LDX", "LDY"} /\ host.budget = LastCycles) =>
        /\ phase = "returned"
        /\ cycles = 0
        /\ LoadTarget = Read(last.pre.memory, LastEA)

\* LDA $FFFF,X with X = 1 and the documented 5 cycles
C2_IndexOverflow ==
    /\ FirstStep /\ last.op = LDA_ABSX /\ LastLo = 255 /\ LastHi = 255
    /\ last.pre.x = 1 /\ host.budget = 5 /\ LastCycles = 5
    /\ phase = "panicked" /\ fault = "overflow"

(***************************************************************************)
(* C3.  An LDA (every addressing mode) in a memory that is zero outside    *)
(* the instruction, its pointer and its operand, run with its documented   *)
(* cycle count plus one, never returns normally.                           *)
(***************************************************************************)
C3_ExtraCycleFatal ==
    (RunOp \in OpsLDA /\ DOMAIN host.image \subseteq RunCells
        /\ host.budget = RunCycles + 1) => phase # "returned"

\* LDA $E003 whose operand byte is the opcode of DEX, X = 1, budget 5
C3_ReturnsAfterDex ==
    /\ RunOp = LDA_ABS /\ RunEA = Org + 3 /\ DOMAIN host.image \subseteq RunCells
    /\ host.budget = 5 /\ RunCycles = 4
    /\ Len(trace) = 2 /\ last.arm = "DEX" /\ last.pre.x = 1 /\ last.pre.cycles = 1
    /\ phase = "returned"

(***************************************************************************)
(* C4.  Every documented instruction at the reset-vector target, run with  *)
(* its documented cycle count minus one (at least 1), ends in the fatal    *)
(* budget underflow and never returns normally.                            *)
(***************************************************************************)
C4_ShortBudgetFatal ==
    (RunOp \in DocOpcodes /\ host.budget >= 1 /\ host.budget = RunCycles - 1
        /\ phase \in {"returned", "panicked"})
        => (phase = "panicked" /\ fault = "cycles")

\* DEX with X = 1 and a budget of 1
C4_DexReturns ==
    /\ RunOp = DEX /\ RunCycles = 2 /\ host.budget = 1
    /\ FirstStep /\ last.arm = "DEX" /\ last.pre.x = 1 /\ x = 0
    /\ phase = "returned"

(***************************************************************************)
(* C5.  A fetched opcode byte outside the 151 documented ones is fatal at  *)
(* that fetch, and each documented byte is dispatched to its own handler.  *)
(***************************************************************************)
C5_Dispatch ==
    Dispatched =>
        IF last.op \in DocOpcodes THEN last.arm = DocHandler(last.op)
        ELSE phase = "panicked"

\* the undocumented byte $02 runs a handler to its end
C5_UnknownRuns ==
    /\ Dispatched /\ last.op = 2 /\ last.op \notin DocOpcodes
    /\ last.arm = "BCC" /\ fault = "none"

(***************************************************************************)
(* C6.  ADC, in every addressing mode, for the operand M it read and the   *)
(* carry C_in it found, leaves A = (A + M + C_in) mod 256 and C = 1 iff    *)
(* A + M + C_in >= 256.                                                    *)
(***************************************************************************)
C6_AdcSum ==
    Completed({"ADC"}) =>
        /\ a = LastSum % 256
        /\ carry_flag(p) = (LastSum >= 256)

\* ADC (zp),Y of $FF + $00 + 1: the carry leaves through the second addition
C6_CarryOut ==
    /\ Completed({"ADC"}) /\ last.op = ADC_INDY
    /\ last.pre.a = 255 /\ LastOperand = 0 /\ CarryIn = 1
    /\ a = 0 /\ carry_flag(p)

(***************************************************************************)
(* C7.  After ADC, V = ((A_old XOR result) AND (M XOR result) AND $80)     *)
(* is not 0.                                                               *)
(***************************************************************************)
C7_AdcOverflow ==
    Completed({"ADC"}) =>
        overflow_flag(p) = (and8(and8(xor8(last.pre.a, a), xor8(LastOperand, a)), 128) # 0)

\* $80 + $01: the operands differ in sign, and V is set
C7_MixedSigns ==
    /\ Completed({"ADC"}) /\ last.pre.a = 128 /\ LastOperand = 1 /\ CarryIn = 0
    /\ a = 129 /\ overflow_flag(p)

(***************************************************************************)
(* C8.  After ADC and SBC, Z = (result = 0) and N = bit 7 of the result;   *)
(* A = $50, C = 0, ADC #$50 ends with A = $A0, V = 1, N = 1, C = 0, Z = 0. *)
(***************************************************************************)
C8_AdcSbcZeroNegative ==
    Completed({"ADC", "SBC"}) =>
        /\ zero_flag(p) = (a = 0)
        /\ negative_flag(p) = (a >= 128)
        /\ (last.op = ADC_IM /\ last.pre.a = 80 /\ LastOperand = 80 /\ CarryIn = 0) =>
              (a = 160 /\ overflow_flag(p) /\ negative_flag(p)
                /\ ~carry_flag(p) /\ ~zero_flag(p))

\* $50 + $50 = $A0 with N clear
C8_NegativeMissed ==
    /\ Completed({"ADC"}) /\ last.op = ADC_IM
    /\ last.pre.a = 80 /\ LastOperand = 80 /\ CarryIn = 0
    /\ a = 160 /\ overflow_flag(p) /\ ~carry_flag(p) /\ ~zero_flag(p)
    /\ ~negative_flag(p)

(***************************************************************************)
(* C9.  After CMP, CPX, CPY of register R with operand M, whatever P was:  *)
(* C = (R >= M), Z = (R = M), N = bit 7 of (R - M) mod 256; the registers  *)
(* and the memory are unchanged.                                           *)
(***************************************************************************)
Compared ==
    CASE last.arm = "CMP" -> last.pre.a [] last.arm = "CPX" -> last.pre.x
      [] OTHER -> last.pre.y

C9_CompareFlags ==
    Completed({"CMP", "CPX", "CPY"}) =>
        /\ carry_flag(p) = (Compared >= LastOperand)
        /\ zero_flag(p) = (Compared = LastOperand)
        /\ negative_flag(p) = ((Compared - LastOperand) % 256 >= 128)
        /\ a = last.pre.a /\ x = last.pre.x /\ y = last.pre.y
        /\ memory = last.pre.memory

\* CMP #$01 with A = $00 and P = 0: $00 - $01 = $FF, and N stays clear
C9_BorrowNotNegative ==
    /\ Completed({"CMP"}) /\ last.op = CMP_IM
    /\ last.pre.a = 0 /\ LastOperand = 1 /\ last.pre.p = 0
    /\ ~negative_flag(p)

(***************************************************************************)
(* C10.  PHA directly followed by PLA, for every A and every SP, leaves A  *)
(* and SP as they were before the PHA and Z = (A = 0), N = bit 7 of A;     *)
(* a second pair changes nothing further.                                  *)
(***************************************************************************)
PairRun ==
    /\ RunOp = PHA /\ RunLo = PLA /\ RunHi = PHA
    /\ Read(host.image, (RunVector + 3) % 65536) = PLA
    /\ host.budget >= PairBudget
    /\ Len(trace) \in 1 .. 4

C10_StackRoundTrip ==
    PairRun =>
        /\ fault = "none"
        /\ Len(trace) \in {2, 4} =>
              /\ a = trace[1].a /\ sp = trace[1].sp
              /\ zero_flag(p) = (a = 0) /\ negative_flag(p) = (a >= 128)
        /\ Len(trace) = 4 => (a = trace[3].a /\ sp = trace[3].sp /\ p = trace[3].p)

\* PHA with SP = $00
C10_PushAtZero ==
    /\ PairRun /\ Len(trace) = 1 /\ last.arm = "PHA" /\ last.pre.sp = 0
    /\ phase = "panicked" /\ fault = "overflow"

\* the two pairs with SP = $80 and A = $80
C10_TwoPairs ==
    /\ PairRun /\ Len(trace) = 4 /\ last.arm = "PLA" /\ fault = "none"
    /\ trace[1].sp = 128 /\ trace[1].a = 128 /\ a = 128 /\ sp = 128
    /\ negative_flag(p)

(***************************************************************************)
(* C11.  Subroutine round trip: JSR addr at address j followed by the RTS  *)
(* located at addr leaves PC = j + 3 and SP as it was before the JSR; with *)
(* nested JSRs the returns happen in last-in first-out order.              *)
(***************************************************************************)
RunAddr == RunLo + 256 * RunHi

\* JSR addr at the vector target, RTS at addr, the documented budget
CallRun == RunOp = JSR /\ Read(host.image, RunAddr) = RTS /\ host.budget = CallCost

\* JSR outer; outer: JSR inner, RTS; inner: RTS
NestedRun == host.image = NestedImage /\ host.budget = 2 * CallCost

C11_CallReturn ==
    /\ (CallRun /\ Len(trace) = 1) => fault = "none"
    /\ (CallRun /\ Len(trace) = 2) =>
          /\ last.arm = "RTS" /\ fault = "none"
          /\ pc = (RunVector + 3) % 65536
          /\ sp = trace[1].sp
    /\ (NestedRun /\ Len(trace) \in 1 .. 4) => fault = "none"
    /\ (NestedRun /\ Len(trace) = 4) =>
          /\ trace[3].arm = "RTS" /\ last.arm = "RTS"
          /\ trace[4].pc = (RunAddr + 3) % 65536
          /\ trace[4].sp = trace[2].sp
          /\ pc = (RunVector + 3) % 65536
          /\ sp = trace[1].sp

\* JSR $00FF after reset (SP = $FF): the push overwrote the RTS at $00FF
C11_ReturnClobbered ==
    /\ CallRun /\ Len(trace) = 2 /\ RunAddr = 255 /\ trace[1].sp = 255
    /\ last.arm = "CPX" /\ last.op = 224
    /\ pc # RunVector + 3

(***************************************************************************)
(* C12.  Every zero-page,X and zero-page,Y instruction accesses its        *)
(* operand at (base + index) mod 256, in page zero: with operand $FE and   *)
(* X = 3 it accesses $0001.                                                *)
(***************************************************************************)
\* the cells the last instruction indexed after its opcode and operand bytes
OperandAccesses == {last.acc[i][2] : i \in 3 .. Len(last.acc)}

C12_ZeroPageIndexed ==
    (Dispatched /\ last.op \in ZpIndexedOps) => OperandAccesses \subseteq {LastEA}

\* CMP $FE,X with X = 3 read its operand at $00FE
C12_CmpIgnoresIndex ==
    /\ Dispatched /\ last.op = CMP_ZPX /\ fault = "none"
    /\ LastLo = 254 /\ last.pre.x = 3
    /\ OperandAccesses = {254}

(***************************************************************************)
(* C13.  JMP (ind) with an operand address whose low byte is $FF takes the *)
(* low byte of the target from $xxFF and the high byte from $xx00 of the   *)
(* same page: JMP ($02FF) sets PC = memory[$02FF] | (memory[$0200] << 8).  *)
(***************************************************************************)
\* the last instruction is JMP (ind) with the operand low byte $FF, started
\* with at least its documented 5 cycles
PageEndJump ==
    Dispatched /\ last.op = JMP_IND /\ LastLo = 255 /\ last.pre.cycles >= LastCycles

C13_IndirectJumpPageWrap ==
    PageEndJump =>
        /\ fault = "none"
        /\ pc = Read(last.pre.memory, 256 * LastHi + 255)
                + 256 * Read(last.pre.memory, 256 * LastHi)

\* JMP ($02FF) took the high byte of the target from $0300
C13_HighByteNextPage ==
    /\ PageEndJump /\ LastHi = 2 /\ fault = "none"
    /\ last.acc[Len(last.acc)] = <<"r", 768>>
    /\ pc = Read(last.pre.memory, 767) + 256 * Read(last.pre.memory, 768)
    /\ pc # Read(last.pre.memory, 767) + 256 * Read(last.pre.memory, 512)

(***************************************************************************)
(* C14.  Each stack push or pull (PHA, PHP, PLA, PLP, JSR, RTS, BRK, RTI)  *)
(* reads or writes memory only at $0100 | SP, inside $0100-$01FF and never *)
(* in page zero; after a JSR at address j executed with SP = $FF,          *)
(* memory[$01FF] and memory[$01FE] hold the high and the low byte of j + 2.*)
(***************************************************************************)
StackArms == {"PHA", "PHP", "PLA", "PLP", "JSR", "RTS"}

\* the cells the last instruction pushed to or pulled from: every cell after
\* the opcode fetch, but for JSR, whose other two accesses fetch its operand
StackAccesses ==
    {last.acc[i][2] : i \in {k \in 2 .. Len(last.acc) :
                               last.arm = "JSR" => last.acc[k][1] = "w"}}

C14_StackInPageOne ==
    /\ (Dispatched /\ last.arm \in StackArms) => StackAccesses \subseteq 256 .. 511
    /\ (Dispatched /\ last.arm = "JSR" /\ last.pre.sp = 255
          /\ last.pre.cycles >= LastCycles) =>
          /\ fault = "none"
          /\ Read(memory, 511) = ((last.pre.pc + 2) % 65536) \div 256
          /\ Read(memory, 510) = (last.pre.pc + 2) % 256

\* JSR at $E000 with SP = $FF left $E0 at $00FF and $02 at $00FE
C14_PushInPageZero ==
    /\ Dispatched /\ last.arm = "JSR" /\ last.pre.sp = 255 /\ fault = "none"
    /\ last.pre.pc = Org
    /\ StackAccesses = {254, 255}
    /\ Read(memory, 255) = 224 /\ Read(memory, 254) = 2
    /\ Read(memory, 511) = 0 /\ Read(memory, 510) = 0

(***************************************************************************)
(* C15.  Each of the eight conditional branches consumes 2 cycles when not *)
(* taken, 3 when taken to a target in the page of the post-fetch PC and 4  *)
(* when taken to a target in another page.                                 *)
(***************************************************************************)
\* the cycles the last instruction consumed, the opcode fetch included
Consumed == last.pre.cycles - cycles

\* the last instruction started with at least its documented cycles
Funded == Dispatched /\ last.pre.cycles >= LastCycles

C15_BranchCycles ==
    (Funded /\ last.op \in DocBranches) => (fault = "none" /\ Consumed = LastCycles)

\* BCC +16 at $E0F0 with the carry clear, taken to $E102, consumed 5 cycles
C15_CrossPageFive ==
    /\ Dispatched /\ last.op = 144 /\ last.pre.pc = 57584 /\ LastLo = 16
    /\ ~carry_flag(last.pre.p)
    /\ fault = "none" /\ pc = 57602
    /\ LastCycles = 4 /\ Consumed = 5

(***************************************************************************)
(* C16.  The program LDX #0; label: INX; CPX #5; BNE label, run from reset *)
(* with the sum of its documented cycle counts as budget, returns normally *)
(* after exactly five INX executions with X = 5, Z = 1 and N = 0; BNE is   *)
(* taken on the first four passes and not taken on the fifth.              *)
(***************************************************************************)
LoopRun == host.image = LoopImage /\ host.budget = LoopCost

\* LDX, then INX, CPX, BNE on each pass
LoopSteps == 1 + 3 * LoopCount

InxExecutions == Cardinality({i \in 1 .. Len(trace) : trace[i].op = INX})

\* the PC the i-th iteration of the run ended with
PcAfter(i) == IF i < Len(trace) THEN trace[i + 1].pc ELSE pc

StackFlowOps ==
    {JSR, RTS, JMP_ABS, JMP_IND, PHA, PHP, PLA, PLP} \cup DocBRK \cup DocRTI

\* the last instruction did not end in a panic other than the budget's
NoOtherPanic == fault \in {"none", "cycles"}

C17_StackFlowCycles ==
    (Funded /\ last.op \in StackFlowOps /\ NoOtherPanic) =>
        (fault = "none" /\ Consumed = LastCycles)

\* BRK at $E000 with the carry clear consumed 3 cycles
C17_BrkThreeCycles ==
    /\ Dispatched /\ last.op = 0 /\ last.pre.pc = Org /\ last.pre.cycles = 7
    /\ ~carry_flag(last.pre.p) /\ LastLo = 16
    /\ fault = "none" /\ LastCycles = 7 /\ Consumed = 3

(***************************************************************************)
(* C18.  Every memory read-modify-write instruction (INC, DEC, ASL, LSR,   *)
(* ROL, ROR) consumes 5 cycles in zero-page mode, 6 in zero-page,X mode, 6 *)
(* in absolute mode and 7 in absolute,X mode, page crossed or not.  The     *)
(* count is that of an instruction that runs to its end: one started with  *)
(* its documented cycles that does not stop in an arithmetic panic.        *)
(***************************************************************************)
C18_RmwCycles ==
    (Funded /\ last.op \in RmwOps /\ NoOtherPanic) =>
        (fault = "none" /\ Consumed = LastCycles)

\* an absolute,X read-modify-write whose index crossed a page took 7 cycles
C18_AbsxCrossedSeven ==
    /\ Dispatched /\ last.op \in RmwOps /\ DocMode(last.op) = "ABSX"
    /\ LastLo = 255 /\ last.pre.x = 1 /\ fault = "none"
    /\ LastEA = 8448 /\ <<"w", 8448>> = last.acc[Len(last.acc)]
    /\ Consumed = 7

(***************************************************************************)
(* C19.  Every implied-mode register instruction consumes 2 cycles, the    *)
(* opcode fetch included: INX, INY, DEX, DEY, TAX, TAY, TXA, TYA, TSX,     *)
(* TXS, the flag operations and NOP; a flag operation changes only its     *)
(* named flag and NOP changes nothing but PC and the budget.               *)
(***************************************************************************)
RegisterOps == {INX, INY, DEX, DEY, TAX, TAY, TXA, TYA, TSX, TXS}

\* P after the documented flag operation op
DocFlagResult(op, bits) ==
    CASE op = 24 -> Status_set(bits, Status_C, FALSE)
      [] op = 56 -> Status_set(bits, Status_C, TRUE)
      [] op = 88 -> Status_set(bits, Status_I, FALSE)
      [] op = 120 -> Status_set(bits, Status_I, TRUE)
      [] op = 184 -> Status_set(bits, Status_V, FALSE)
      [] op = 216 -> Status_set(bits, Status_D, FALSE)
      [] op = 248 -> Status_set(bits, Status_D, TRUE)
      [] OTHER -> bits

\* nothing but PC, P and the budget differs from the state before the step
OnlyPcAndFlags ==
    /\ pc = (last.pre.pc + 1) % 65536
    /\ a = last.pre.a /\ x = last.pre.x /\ y = last.pre.y /\ sp = last.pre.sp
    /\ memory = last.pre.memory

C19_ImpliedTwoCycles ==
    /\ (Funded /\ last.op \in RegisterOps \cup DocFlagOps \cup DocNOP
          /\ NoOtherPanic) => (fault = "none" /\ Consumed = 2)
    /\ (Funded /\ last.op \in DocFlagOps \cup DocNOP) =>
          (OnlyPcAndFlags /\ p = DocFlagResult(last.op, last.pre.p))

\* DEX with X = 1 consumed the cycle of its opcode fetch and no other
C19_DexOneCycle ==
    /\ Dispatched /\ last.op = DEX /\ last.pre.x = 1 /\ last.pre.cycles >= 2
    /\ fault = "none" /\ x = 0 /\ zero_flag(p)
    /\ Consumed = 1

(***************************************************************************)
(* C20.  Memory accesses cannot fail: every address the executor reads or  *)
(* writes lies in $0000-$FFFF, for every operand value including pointers  *)
(* at $FFFF and $00FF.                                                     *)
(***************************************************************************)
\* no step ended in an index out of the 65536 bytes, and every cell a step
\* indexed is one of them
C20_AccessesInRange ==
    /\ fault # "bounds"
    /\ Dispatched => \A i \in 1 .. Len(last.acc) : last.acc[i][2] \in 0 .. WordMax

\* JMP ($FFFF) read the low byte at $FFFF and stopped on the index 65536
C20_IndexPastEnd ==
    /\ last.arm = "JMP" /\ last.op = JMP_IND /\ LastLo = 255 /\ LastHi = 255
    /\ last.pre.cycles >= 5
    /\ fault = "bounds" /\ phase = "panicked"
    /\ last.acc[Len(last.acc)] = <<"r", 65535>>

(***************************************************************************)
(* C21.  A conditional branch is taken iff its flag condition holds; when  *)
(* taken PC becomes (PC after the fetch + signext(offset)) mod 65536, when *)
(* not taken PC is the address after the offset byte; no flag, register or *)
(* memory cell changes.                                                    *)
(***************************************************************************)
\* A, X, Y, SP, P and memory are as before the last step
FrameKept ==
    /\ a = last.pre.a /\ x = last.pre.x /\ y = last.pre.y /\ sp = last.pre.sp
    /\ p = last.pre.p /\ memory = last.pre.memory

C21_BranchCondition ==
    (Dispatched /\ last.op \in DocBranches /\ fault = "none") =>
        /\ pc = (IF DocTaken(last.op, last.pre.p)
                 THEN DocTarget(last.pre.pc, LastLo)
                 ELSE (last.pre.pc + 2) % 65536)
        /\ FrameKept

\* BEQ +16 at $E000 with Z clear (and C clear) was taken to $E012
C21_BeqTakenOnCarry ==
    /\ Dispatched /\ last.op = 240 /\ last.pre.pc = Org /\ LastLo = 16
    /\ ~zero_flag(last.pre.p) /\ ~carry_flag(last.pre.p)
    /\ fault = "none" /\ pc = Org + 18

(***************************************************************************)
(* C22.  For every A, memory operand M and prior P, BIT sets               *)
(* Z = ((A AND M) = 0), N = bit 7 of M and V = bit 6 of M, and leaves C,   *)
(* I, D and B, the registers and memory unchanged.                         *)
(***************************************************************************)
\* the byte at the documented effective address of the last instruction
DocOperand == Read(last.pre.memory, LastEA)

\* P with N and V taken from bits 7 and 6 of m, Z from a AND m, and the
\* other flags of bits
DocBitResult(bits, ar, m) ==
    Status_set(Status_set(Status_set(bits, Status_Z, and8(ar, m) = 0),
                          Status_N, bit(m, 7) = 1),
               Status_V, bit(m, 6) = 1)

C22_BitFlags ==
    Completed({"BIT"}) =>
        /\ p = DocBitResult(last.pre.p, last.pre.a, DocOperand)
        /\ a = last.pre.a /\ x = last.pre.x /\ y = last.pre.y /\ sp = last.pre.sp
        /\ memory = last.pre.memory

\* BIT $10 with A = $FF, M = $C0 and only the carry set left P = 0
C22_FlagsWiped ==
    /\ Completed({"BIT"}) /\ last.op = BIT_ZP
    /\ last.pre.a = 255 /\ DocOperand = 192 /\ last.pre.p = 1
    /\ p = 0

(***************************************************************************)
(* C23.  For every source byte src and old carry C_old, in accumulator and *)
(* in memory form, the value written back is: ASL (src << 1) mod 256, LSR  *)
(* src >> 1, ROL ((src << 1) mod 256) | C_old, ROR (src >> 1) | (C_old <<  *)
(* 7); memory forms write the result to the effective address that was     *)
(* read.                                                                   *)
(***************************************************************************)
ShiftArms == {"ASL", "LSR", "ROL", "ROR"}

AccumulatorForm == last.op \in {ASL_A, LSR_A, ROL_A, ROR_A}

\* the byte the last shift or rotate took as its source
ShiftSource == IF AccumulatorForm THEN last.pre.a ELSE DocOperand

\* the documented result of the shift or rotate named arm
DocShift(arm, src, cin) ==
    CASE arm = "ASL" -> (2 * src) % 256
      [] arm = "LSR" -> src \div 2
      [] arm = "ROL" -> ((2 * src) % 256) + cin
      [] arm = "ROR" -> (src \div 2) + 128 * cin

ShiftResult == DocShift(last.arm, ShiftSource, CarryIn)

C23_ShiftResult ==
    Completed(ShiftArms) =>
        IF AccumulatorForm
        THEN a = ShiftResult /\ memory = last.pre.memory
        ELSE /\ a = last.pre.a
             /\ last.acc[Len(last.acc) - 1] = <<"r", LastEA>>
             /\ last.acc[Len(last.acc)] = <<"w", LastEA>>
             /\ memory = Write(last.pre.memory, LastEA, ShiftResult)

\* ROR $10 on $01 with the carry set wrote $80 back to $0010
C23_RorCarryIn ==
    /\ Completed({"ROR"}) /\ last.op = ROR_ZP
    /\ DocOperand = 1 /\ carry_flag(last.pre.p)
    /\ LastEA = 16 /\ Read(memory, 16) = 128

(***************************************************************************)
(* C24.  After every shift or rotate, in accumulator and in memory form    *)
(* and for every prior value of C, the carry flag equals the bit shifted   *)
(* out: bit 7 of src for ASL and ROL, bit 0 of src for LSR and ROR.        *)
(***************************************************************************)
\* the bit of the source the last shift or rotate moves out
ShiftedOut == IF last.arm \in {"ASL", "ROL"} THEN bit(ShiftSource, 7) ELSE bit(ShiftSource, 0)

C24_ShiftCarry ==
    Completed(ShiftArms) => (carry_flag(p) <=> ShiftedOut = 1)

\* ASL A on $01 with the carry set left the carry set
C24_CarryNotCleared ==
    /\ Completed({"ASL"}) /\ last.op = ASL_A
    /\ last.pre.a = 1 /\ carry_flag(last.pre.p)
    /\ a = 2 /\ carry_flag(p)

(***************************************************************************)
(* C25.  After every ASL, LSR, ROL and ROR, for every prior value of P,    *)
(* Z = (result = 0) and N = bit 7 of result, whether or not a bit was      *)
(* shifted out into carry.                                                 *)
(***************************************************************************)
C25_ShiftZeroNegative ==
    Completed(ShiftArms) =>
        /\ zero_flag(p) <=> ShiftResult = 0
        /\ negative_flag(p) <=> bit(ShiftResult, 7) = 1

\* ASL A on $80 with N set gave $00 and left N set
C25_NegativeKept ==
    /\ Completed({"ASL"}) /\ last.op = ASL_A
    /\ last.pre.a = 128 /\ negative_flag(last.pre.p)
    /\ a = 0 /\ zero_flag(p) /\ negative_flag(p)

(***************************************************************************)
(* C26.  STA, STX and STY write the byte of their own register (A, X and   *)
(* Y) to the effective address in every addressing mode, change exactly    *)
(* that one memory cell, and change no flag and no register other than PC. *)
(***************************************************************************)
StoreArms == {"STA", "STX", "STY"}

\* the register the last store instruction is documented to write
StoreRegister ==
    CASE last.arm = "STA" -> last.pre.a
      [] last.arm = "STX" -> last.pre.x
      [] OTHER -> last.pre.y

C26_StoreOwnRegister ==
    Completed(StoreArms) =>
        /\ memory = Write(last.pre.memory, LastEA, StoreRegister)
        /\ a = last.pre.a /\ x = last.pre.x /\ y = last.pre.y /\ sp = last.pre.sp
        /\ p = last.pre.p

\* STY $10 with X = 1 and Y = 2 wrote $01 to $0010
C26_StyWritesX ==
    /\ Completed({"STY"}) /\ last.op = STY_ZP
    /\ last.pre.x = 1 /\ last.pre.y = 2
    /\ LastEA = 16 /\ Read(memory, 16) = 1

(***************************************************************************)
(* C27.  Indexed stores always bill the extra cycle: STA abs,X and STA     *)
(* abs,Y consume 5 cycles and STA (ind),Y 6, page crossed or not, and the  *)
(* write of every store is billed one cycle (zero page 3, zero page        *)
(* indexed 4, absolute 4, STA (ind,X) 6).                                  *)
(***************************************************************************)
C27_StoreCycles ==
    (Funded /\ last.op \in OpsSTA \cup OpsSTX \cup OpsSTY /\ NoOtherPanic) =>
        (fault = "none" /\ Consumed = LastCycles)

\* STA $0210,X with X = 1, no page crossed, consumed 3 cycles
C27_AbsxThreeCycles ==
    /\ Completed({"STA"}) /\ last.op = STA_ABSX
    /\ last.pre.x = 1 /\ LastEA = 529 /\ Read(memory, 529) = last.pre.a
    /\ LastCycles = 5 /\ Consumed = 3

(***************************************************************************)
(* C28.  PLP and RTI never fail for any of the 256 byte values on the      *)
(* stack: a pulled byte with bit 5 set is accepted, and the resulting P    *)
(* has bit 5 clear and B masked off, with the other six flags equal to the *)
(* pulled bits.                                                            *)
(***************************************************************************)
\* the byte the last PLP pulled: the cell it read after its opcode
PulledByte == Read(last.pre.memory, last.acc[2][2])

\* the byte on top of the documented stack, at $0100 | (SP + 1)
DocStackTop == Read(last.pre.memory, 256 + ((last.pre.sp + 1) % 256))

\* bit 5 and B (bit 4) masked off
DocPulledFlags(b) == b - 32 * bit(b, 5) - 16 * bit(b, 4)

C28_PullAnyByte ==
    /\ (Funded /\ last.op = PLP /\ last.pre.sp < 255) =>
          (fault = "none" /\ p = DocPulledFlags(PulledByte))
    /\ (Funded /\ last.op = 64 /\ last.pre.sp < 253) =>
          (fault = "none" /\ p = DocPulledFlags(DocStackTop))

\* PLP of the byte $30 ended in the panic of unwrap
C28_PullBitFivePanics ==
    /\ last.arm = "PLP" /\ last.pre.sp = 128 /\ last.pre.cycles >= 4
    /\ last.acc[2] = <<"r", 129>> /\ PulledByte = 48
    /\ fault = "unwrap" /\ phase = "panicked"

(***************************************************************************)
(* C29.  PHP and BRK push P | $30: the pushed byte has bit 4 and bit 5 set *)
(* and its other bits equal to P; PHP leaves P itself unchanged.           *)
(***************************************************************************)
\* P with bit 4 and bit 5 forced to one
DocPushedFlags(b) == b + 16 * (1 - bit(b, 4)) + 32 * (1 - bit(b, 5))

\* the cells the last instruction wrote
WrittenCells == { last.acc[i][2] : i \in { j \in 1..Len(last.acc) : last.acc[j][1] = "w" } }

C29_PushedFlags ==
    /\ (Funded /\ last.op = PHP /\ last.pre.sp > 0) =>
          /\ fault = "none" /\ p = last.pre.p
          /\ \E c \in WrittenCells : Read(memory, c) = DocPushedFlags(last.pre.p)
    /\ (Funded /\ last.op = 0 /\ last.pre.sp > 2) =>
          /\ fault = "none"
          /\ \E c \in WrittenCells : Read(memory, c) = DocPushedFlags(last.pre.p)

\* PHP with P = $C3 completed and pushed $C3
C29_PushedAsIs ==
    /\ Completed({"PHP"}) /\ last.pre.p = 195 /\ p = 195
    /\ WrittenCells = {last.pre.sp} /\ Read(memory, last.pre.sp) = 195

(***************************************************************************)
(* C30.  BRK pushes the return address and the status, leaves SP lower by  *)
(* 3, sets I, and loads PC from the vector at $FFFE/$FFFF; A, X, Y and the *)
(* flags C, Z, D, V, N are unchanged.                                      *)
(***************************************************************************)
\* the word at the interrupt vector before the instruction
DocBreakVector == Read(last.pre.memory, 65534) + 256 * Read(last.pre.memory, 65535)

C30_Break ==
    (Funded /\ last.op = 0 /\ last.pre.sp > 2) =>
        /\ fault = "none"
        /\ sp = last.pre.sp - 3
        /\ bit(p, 2) = 1
        /\ pc = DocBreakVector
        /\ a = last.pre.a /\ x = last.pre.x /\ y = last.pre.y
        /\ \A i \in {0, 1, 3, 6, 7} : bit(p, i) = bit(last.pre.p, i)
        /\ Cardinality(WrittenCells) = 3

\* byte $00 completed as a branch: nothing pushed, SP and I as before
C30_BreakRunsBranch ==
    /\ Completed({"BCC"}) /\ last.op = 0 /\ last.pre.cycles >= 7 /\ last.pre.sp > 2
    /\ sp = last.pre.sp /\ p = last.pre.p /\ bit(p, 2) = 0
    /\ WrittenCells = {} /\ pc # DocBreakVector

(***************************************************************************)
(* C31.  RTI pulls P, then PC-low, then PC-high (SP increases by 3) and    *)
(* sets PC to exactly the pulled word with no increment; an RTI executed   *)
(* by the handler right after a BRK returns PC to the address BRK pushed   *)
(* and restores C, Z, I, D, V and N to their values before the BRK.        *)
(***************************************************************************)
\* the documented stack cell k pulls above SP
DocStackCell(k) == Read(last.pre.memory, 256 + ((last.pre.sp + k) % 256))

BreakRun == host.image = BreakImage

C31_ReturnFromInterrupt ==
    /\ (Funded /\ last.op = 64 /\ last.pre.sp < 253) =>
          /\ fault = "none"
          /\ sp = last.pre.sp + 3
          /\ pc = DocStackCell(2) + 256 * DocStackCell(3)
    /\ (BreakRun /\ phase \in {"returned", "panicked"}) =>
          /\ fault = "none"
          /\ Len(trace) = 2 /\ trace[2].op = 64 /\ trace[2].pc = 768
          /\ pc = Org + 2 /\ sp = host.sp
          /\ \A i \in {0, 1, 2, 3, 6, 7} : bit(p, i) = bit(host.p, i)

\* byte $40 completed as a branch: nothing pulled, PC moved past or by the
\* operand byte
C31_ReturnRunsBranch ==
    /\ Completed({"BCC"}) /\ last.op = 64 /\ last.pre.cycles >= 6
    /\ last.pre.sp < 253 /\ sp = last.pre.sp
    /\ Len(last.acc) = 2
    /\ pc \in {last.pre.pc + 2, last.pre.pc + 2 + LastLo}

(***************************************************************************)
(* C32.  INC, DEC, INX, INY, DEX and DEY wrap mod 256 without any fatal    *)
(* error: incrementing $FF gives $00 with Z = 1 and N = 0, decrementing    *)
(* $00 gives $FF with Z = 0 and N = 1, and in every case Z and N are       *)
(* assigned from the 8-bit result.                                         *)
(***************************************************************************)
StepArms == {"INC", "DEC", "INX", "INY", "DEX", "DEY"}

\* the byte the last increment or decrement started from, and where it is now
StepSource ==
    CASE last.arm \in {"INX", "DEX"} -> last.pre.x
      [] last.arm \in {"INY", "DEY"} -> last.pre.y
      [] OTHER -> Read(last.pre.memory, LastEA)

StepResult ==
    CASE last.arm \in {"INX", "DEX"} -> x
      [] last.arm \in {"INY", "DEY"} -> y
      [] OTHER -> Read(memory, LastEA)

DocStep == IF last.arm \in {"INC", "INX", "INY"} THEN (StepSource + 1) % 256
           ELSE (StepSource + 255) % 256

C32_StepWraps ==
    (last.arm \in StepArms /\ fault # "cycles") =>
        /\ fault = "none"
        /\ StepResult = DocStep
        /\ bit(p, 1) = (IF DocStep = 0 THEN 1 ELSE 0)
        /\ bit(p, 7) = bit(DocStep, 7)

\* INX with X = $FF and all its cycles ended in the overflow panic
C32_InxOverflowPanics ==
    /\ last.arm = "INX" /\ last.pre.x = 255 /\ last.pre.cycles >= 2
    /\ fault = "overflow" /\ phase = "panicked" /\ x = 255

(***************************************************************************)
(* C33.  SP wraps mod 256 on every stack operation without any fatal       *)
(* error: a push (PHA, PHP, JSR, BRK) executed with SP = $00 leaves        *)
(* SP = $FF, and a pull (PLA, PLP, RTS, RTI) executed with SP = $FF,       *)
(* including the first pull after reset, continues with SP = $00.          *)
(***************************************************************************)
\* the bytes the arm pushes (negative) or pulls (positive)
DocStackDelta(arm) ==
    CASE arm \in {"PHA", "PHP"} -> 255
      [] arm = "JSR" -> 254
      [] arm \in {"PLA", "PLP"} -> 1
      [] arm = "RTS" -> 2

\* the last instruction moved SP across an end of its range
StackWraps ==
    /\ last.arm \in StackArms
    /\ (last.pre.sp + DocStackDelta(last.arm)) \div 256
           # (IF last.arm \in {"PHA", "PHP", "JSR"} THEN 1 ELSE 0)

C33_StackPointerWraps ==
    (Funded /\ StackWraps) =>
        (fault = "none" /\ sp = (last.pre.sp + DocStackDelta(last.arm)) % 256)

\* the first pull after reset, PLA with SP = $FF, ended in the overflow panic
C33_PullAfterResetPanics ==
    /\ FirstStep /\ last.arm = "PLA" /\ last.pre.sp = 255 /\ last.pre.cycles >= 4
    /\ fault = "overflow" /\ phase = "panicked" /\ sp = 255

(***************************************************************************)
(* C34.  All 16-bit arithmetic wraps mod 65536 without any fatal error:    *)
(* fetching at PC = $FFFF leaves PC = $0000, RTS of a pulled word $FFFF    *)
(* leaves PC = $0000, and the indexed effective addresses base + X,        *)
(* base + Y and pointer + Y are reduced mod 65536.                         *)
(***************************************************************************)
\* a loop iteration of execute has run
Iterated == last.arm \notin {"none", "reset", "poke", "execute"}

\* the last instruction is indexed past the end of memory
IndexedPastEnd ==
    /\ last.op \in ConstArms /\ DocMode(last.op) \in {"ABSX", "ABSY", "INDY"}
    /\ LastEA < DocBase(last.op, LastLo, LastHi, last.pre.x, last.pre.memory)

C34_WordWraps ==
    /\ (Iterated /\ last.pre.pc = 65535 /\ last.pre.cycles >= 2
          /\ Read(last.pre.memory, 65535) \in {INX, INY, TAX, TAY}) =>
          (fault = "none" /\ pc = 0)
    /\ (Funded /\ last.arm = "RTS" /\ last.pre.sp < 254
          /\ DocStackCell(1) = 255 /\ DocStackCell(2) = 255) =>
          (fault = "none" /\ pc = 0)
    /\ (Funded /\ IndexedPastEnd) =>
          (fault = "none" /\ last.acc[Len(last.acc)][2] = LastEA)

\* the opcode fetch at $FFFF ended in the overflow panic of `self.pc += 1`
C34_FetchAtTopPanics ==
    /\ last.arm = "fetch" /\ last.pre.pc = 65535 /\ last.pre.cycles >= 2
    /\ Read(last.pre.memory, 65535) = INX
    /\ fault = "overflow" /\ phase = "panicked" /\ pc = 65535

(***************************************************************************)
(* C35.  The pointer fetch of (ind,X) and (ind),Y wraps inside page zero:  *)
(* for a zero-page pointer address p (p = (b + X) mod 256 for (ind,X)),    *)
(* the effective address is built from memory[p] as low byte and           *)
(* memory[(p + 1) mod 256] as high byte, so a pointer at $FF takes its     *)
(* high byte from $0000 and never from $0100.                              *)
(***************************************************************************)
\* the last instruction is an (ind,X) or (ind),Y instruction that completed
IndirectDone ==
    /\ Dispatched /\ last.op \in ConstArms /\ DocMode(last.op) \in {"INDX", "INDY"}
    /\ fault = "none"

\* the zero-page pointer address of the last instruction
LastPointer == DocPointer(last.op, LastLo, last.pre.x)

C35_PointerInPageZero ==
    IndirectDone =>
        /\ Len(last.acc) >= 5
        /\ last.acc[3] = <<"r", LastPointer>>
        /\ last.acc[4] = <<"r", (LastPointer + 1) % 256>>
        /\ last.acc[5][2] = LastEA

\* LDA ($FF),Y took the high byte of its pointer from $0100
C35_HighByteFromPageOne ==
    /\ Completed({"LDA"}) /\ last.op = LDA_INDY /\ LastLo = 255
    /\ last.acc[3] = <<"r", 255>> /\ last.acc[4] = <<"r", 256>>
    /\ Read(last.pre.memory, 0) # Read(last.pre.memory, 256)
    /\ last.acc[5][2] # LastEA

(***************************************************************************)
(* C36.  Loads (LDA, LDX, LDY), logic operations (AND, EOR, ORA), PLA and  *)
(* the transfers TAX, TAY, TXA, TYA, TSX assign Z = (destination == 0) and *)
(* N = bit 7 of the destination for every prior value of P, and leave C,   *)
(* I, D, B, V, the other registers and memory unchanged; TXS copies X to   *)
(* SP and changes no flag.                                                 *)
(***************************************************************************)
ToA == {"LDA", "AND", "EOR", "ORA", "PLA", "TXA", "TYA"}
ToX == {"LDX", "TAX", "TSX"}
ToY == {"LDY", "TAY"}

\* the register the last instruction assigned
Destination ==
    CASE last.arm \in ToA -> a [] last.arm \in ToX -> x [] OTHER -> y

C36_ZeroNegativeFrame ==
    /\ Completed(ToA \cup ToX \cup ToY) =>
          /\ bit(p, 1) = (IF Destination = 0 THEN 1 ELSE 0)
          /\ bit(p, 7) = bit(Destination, 7)
          /\ \A i \in {0, 2, 3, 4, 5, 6} : bit(p, i) = bit(last.pre.p, i)
          /\ last.arm \notin ToA => a = last.pre.a
          /\ last.arm \notin ToX => x = last.pre.x
          /\ last.arm \notin ToY => y = last.pre.y
          /\ last.arm # "PLA" => sp = last.pre.sp
          /\ memory = last.pre.memory
    /\ Completed({"TXS"}) =>
          /\ sp = last.pre.x /\ p = last.pre.p
          /\ a = last.pre.a /\ x = last.pre.x /\ y = last.pre.y
          /\ memory = last.pre.memory

\* N, V, Z and C were set, AND gave zero: Z stays, N is cleared, V and C stay
C36_AndClearsNegative ==
    /\ Completed({"AND"}) /\ last.pre.p = 195 /\ last.pre.a = 128 /\ DocOperand = 127
    /\ a = 0 /\ p = 67

(***************************************************************************)
(* C37.  For all 8-bit A and M and carry-in C_in, SBC with operand M       *)
(* leaves the same A and the same C, V, Z, N as ADC with operand           *)
(* (M XOR $FF) from the same state, so A = (A - M - (1 - C_in)) mod 256    *)
(* and C = 1 iff no borrow occurred (A >= M + (1 - C_in)).                 *)
(***************************************************************************)
\* the state the last SBC started from, with ADC #(M XOR $FF) in its place,
\* M being the operand byte the SBC read
AdcTwinStart ==
    [pc |-> last.pre.pc, sp |-> last.pre.sp, a |-> last.pre.a, x |-> last.pre.x,
     y |-> last.pre.y, p |-> last.pre.p,
     memory |-> Write(Write(last.pre.memory, last.pre.pc, ADC_IM),
                      last.pre.pc + 1, xor8(LastOperand, 255)),
     cycles |-> last.pre.cycles, fault |-> "none", ret |-> 0, acc |-> <<>>]

\* what ADC leaves from that state
AdcTwin == arm_ADC(fetch_byte(AdcTwinStart), ADC_IM)

C37_SbcIsAdcOfComplement ==
    Completed({"SBC"}) =>
        /\ AdcTwin.fault = "none"
        /\ a = AdcTwin.a /\ p = AdcTwin.p
        /\ x = AdcTwin.x /\ y = AdcTwin.y /\ sp = AdcTwin.sp
        /\ a = (last.pre.a + 256 - LastOperand - (1 - CarryIn)) % 256
        /\ carry_flag(p) <=> (last.pre.a >= LastOperand + (1 - CarryIn))

\* $00 - $01 with the carry set: $FF with a borrow
C37_BorrowClearsCarry ==
    /\ Completed({"SBC"}) /\ last.op = SBC_ZP
    /\ last.pre.a = 0 /\ LastOperand = 1 /\ CarryIn = 1
    /\ a = 255 /\ ~carry_flag(p)
    /\ AdcTwin.a = 255 /\ ~carry_flag(AdcTwin.p)

(***************************************************************************)
(* C38.  Every call of execute with a finite budget terminates: each loop  *)
(* iteration debits at least one cycle, so the run ends after at most      *)
(* budget instructions either with a fatal error or with a normal return,  *)
(* and a normal return happens only at an instruction boundary with the    *)
(* remaining budget exactly 0 (cycles debited equal the budget supplied).  *)
(***************************************************************************)
\* execute has been called
Called == phase \in {"running", "returned", "panicked"}

\* the cycles left when the i-th iteration of the run ended
CyclesAfter(i) == IF i < Len(trace) THEN trace[i + 1].cycles ELSE cycles

C38_ExecuteTerminates ==
    Called =>
        /\ Len(trace) <= host.budget
        /\ cycles <= host.budget - (IF fault = "none" THEN Len(trace) ELSE Len(trace) - 1)
        /\ \A i \in 1 .. Len(trace) :
              (i < Len(trace) \/ fault = "none") => CyclesAfter(i) < trace[i].cycles
        /\ (phase = "running") <=> (fault = "none" /\ cycles > 0)
        /\ (phase = "returned") <=> (fault = "none" /\ cycles = 0)
        /\ (phase = "panicked") <=> (fault # "none")

\* the two nested calls returned after four instructions with nothing left
C38_FourStepsThenReturn ==
    /\ NestedRun /\ phase = "returned" /\ fault = "none" /\ cycles = 0
    /\ Len(trace) = 4 /\ trace[1].cycles = host.budget /\ host.budget = 2 * CallCost

(***************************************************************************)
(* C39.  Bit 5 of P is 0 in every reachable state: starting from the       *)
(* default state (all registers zero, P = 0), no sequence of instructions, *)
(* including PLP and RTI of any stack byte, ever leaves the unused bit 5   *)
(* set in the status register.                                             *)
(***************************************************************************)
C39_BitFiveClear == bit(p, 5) = 0

\* PLP met the byte $FF on the stack and P still has bit 5 clear
C39_PullAllOnes ==
    /\ last.arm = "PLP" /\ last.pre.cycles >= 4 /\ last.pre.sp < 255
    /\ Len(last.acc) = 2 /\ PulledByte = 255
    /\ p = last.pre.p /\ bit(p, 5) = 0

(***************************************************************************)
(* C40.  Every instruction that reads one operand byte from memory bills   *)
(* that read as one cycle, so instructions sharing an addressing mode      *)
(* consume the same total as LDA in that mode: BIT, AND, EOR, ORA, ADC,    *)
(* SBC, CMP, CPX, CPY cost 3 in zero-page mode and 4 in absolute mode, and *)
(* BIT abs costs exactly one cycle more than BIT zp.                       *)
(***************************************************************************)
ReadOps ==
    OpsBIT \cup OpsAND \cup OpsEOR \cup OpsORA \cup OpsADC \cup OpsSBC
    \cup OpsCMP \cup OpsCPX \cup OpsCPY

C40_OperandReadBilled ==
    (Dispatched /\ last.op \in ReadOps /\ DocMode(last.op) \in {"ZP", "ABS"}
       /\ last.pre.cycles >= 4) =>
        /\ fault = "none"
        /\ Consumed = (IF DocMode(last.op) = "ZP" THEN 3 ELSE 4)

\* BIT $0210 with all its cycles consumed 3 of them, as BIT $10 does
C40_BitAbsoluteThreeCycles ==
    /\ Completed({"BIT"}) /\ last.op = BIT_ABS /\ last.pre.cycles >= 4
    /\ LastEA = 528 /\ Len(last.acc) = 4 /\ Consumed = 3
====
